---- MODULE Spec2Model ----
(***************************************************************************)
(* Relay of the Web Inspector bridge (src/bridge/server.js): the registry  *)
(* of CLI subscribers, the arbitration of one target per browser event     *)
(* and the forwarding of the event to the chosen subscriber.  After it,    *)
(* the connection of the userscript to the relay (Transport in             *)
(* src/unnamed/part_001) and that of the MCP server (mcp-server.mjs).      *)
(*                                                                         *)
(* Strings that the code compares by substring (project path, tty, window  *)
(* title) are sequences of one-character strings.  The JavaScript values   *)
(* null and '' are both falsy; where the code folds them together          *)
(* (`x || ''`, `result || null`) the model writes the empty sequence.      *)
(***************************************************************************)
EXTENDS Integers, Sequences, FiniteSets, TLC

\* --------------------------------------------------------- program constants
FreshWindowMs == 3000   \* server.js:445  now - c.lastHeartbeat < 3000
OPEN == 1               \* server.js:565  target.ws.readyState === 1
CLOSING == OPEN + 1     \* the readyState values that are not OPEN
CLOSED == OPEN + 2
MAX_RETRIES == 5        \* part_001:33   Config.MAX_RETRIES
RETRY_INTERVAL == 3000  \* part_001:34   Config.RETRY_INTERVAL
INITIAL_RECONNECT_DELAY == 1000   \* mcp-server.mjs:42
MAX_RECONNECT_DELAY == 30000      \* mcp-server.mjs:43
HEARTBEAT_INTERVAL == 5000        \* mcp-server.mjs:39
DEFAULT_PORT == 51765             \* server.js:17
SUBSCRIBER_PORT == 51766          \* server.js:18
PORT_ATTEMPTS == 3                \* server.js:174  `attempt < 3`
EXIT_TIMEOUT == 2000              \* server.js:659  setTimeout(exit, 2000)

\* ------------------------------------------------------------------ bounds
NumTransports == 2      \* subscriber connections accepted during a run
MaxTicks == 1           \* clock advances during a run
ArbTicks == 2           \* clock advances before an arbitrated snapshot
NumSockets == 3         \* WebSocket objects the userscript creates during a run
MaxFailures == 7        \* reconnects the MCP server schedules in a row
MaxBeats == 2           \* heartbeats the MCP server sends on one connection
NumBrowsers == 1        \* producer connections accepted during a run
MaxSignals == 2         \* SIGINT / SIGTERM signals delivered during a run
NumMcpSockets == 4      \* WebSocket objects the MCP server creates during a run
ScheduleEnd == 9        \* seconds of the clock of the heartbeat schedule


\* ------------------------------------------------------------ value domains
Transports == 1..NumTransports
NotAccepted == OPEN - 1 \* a connection the server has not accepted yet

NullId == "null"              \* `let clientId = null` (server.js:479)
Undefined == "undefined"      \* payload.clientId of a register without clientId
ClientIds == {"c1", "c2"}
PayloadIds == ClientIds \cup {Undefined}

EmptyStr == <<>>
Null == <<>>                  \* what detectActiveTTY returns for "no title"
UnknownTty == <<"u", "n", "k", "n", "o", "w", "n">>

\* projectPath / tty fields carried by a register payload (EmptyStr = absent)
PayloadMetas ==
  { [projectPath |-> EmptyStr, tty |-> EmptyStr],
    [projectPath |-> <<"a">>,  tty |-> EmptyStr],
    [projectPath |-> EmptyStr, tty |-> <<"t">>] }

\* what the subscribers of a run register with
RegisterMetas == { [projectPath |-> <<"a">>, tty |-> <<"t">>] }

\* Date.now() at the k-th clock advance: the advances alternate between the
\* width of the freshness window and 2 s, so that heartbeat ages of 0, 2, 3
\* and 5 s all occur
RECURSIVE ClockAt(_)
ClockAt(k) ==
  IF k = 0 THEN 0
  ELSE ClockAt(k - 1) + (IF k % 2 = 1 THEN FreshWindowMs ELSE 2000)

\* outcomes of the osascript probe: it throws (failure, timeout) or prints
ProbeOutcomes ==
  { [status |-> "error",   stdout |-> EmptyStr],
    [status |-> "timeout", stdout |-> EmptyStr] }
  \cup
  { [status |-> "ok", stdout |-> s] :
      s \in { EmptyStr, <<"x">>, <<"a">>, <<"a", "t">> } }

\* JSON values of the producer's messages: objects are records, null is a
\* record of its own, and a field an object does not have reads as undefined
JsonNull == [null |-> TRUE]
JsUndefined == [undefined |-> TRUE]
Element == [tagName |-> "div"]      \* what Collector.collect returns

\* truthiness of a JSON value (objects are truthy)
JsTruthy(v) == v \notin {JsonNull, JsUndefined}

\* payload.data
DataOf(payload) ==
  IF "data" \in DOMAIN payload THEN payload.data ELSE JsUndefined

\* the message Transport.sendElement sends for elementData
SendElementPayload(elementData) ==
  [type |-> "element_selected",
   timestamp |-> "iso",
   data |-> IF JsTruthy(elementData) THEN elementData ELSE JsonNull]

\* messages a producer sends that parse and are not pings: those of the
\* userscript (Collector.collect returned an element, or null), an element
\* sent without an envelope, and the JSON text null
ProducerMessages ==
  { SendElementPayload(d) : d \in {Element, JsonNull} } \cup {Element, JsonNull}

\* the producer message of the runs that vary the registry
RunMessages == { SendElementPayload(Element) }

VARIABLES
  subscribers,    \* the Map clientId -> record, as the sequence of its entries
                  \* in iteration (insertion) order
  readyState,     \* readyState of each subscriber connection's socket
  connClientId,   \* the `clientId` closure variable of each connection
  ticks,          \* clock advances so far
  now,            \* Date.now()
  lastMsg,        \* kind of producer message the last step handled, or "none"
  probed,         \* detectActiveTTY was called while handling it
  activeWindow,   \* what detectActiveTTY returned (Null when not called)
  selected,       \* entry selectTargetClient returned (0 = null)
  routerLog,      \* the [Router] line selectTargetClient wrote ("none" = no line)
  sent,           \* connections that were sent the 'element' message
  payloadIn,      \* the parsed element message the last step handled, if any
  elementOut      \* the message passed to target.ws.send, if any

\* the userscript: State.connectionState and the fields of Transport
VARIABLES
  connectionState,    \* State.connectionState
  ws,                 \* Transport.ws: the socket it refers to, 0 = null
  sockState,          \* each WebSocket object created by connect(): "none"
                      \* before it exists, then "connecting", "open",
                      \* "failing" (error and close events to come),
                      \* "closing" (close event to come), "closed"
  reconnectAttempts,  \* Transport.reconnectAttempts
  reconnectTimer,     \* Transport.reconnectTimer: "null", or the handle of a
                      \* timer that is "armed" or has fired ("spent")
  timerDelay,         \* delay given to the last setTimeout (0 before any)
  isManualClose,      \* Transport.isManualClose
  isReconnecting,     \* Transport.isReconnecting
  op                  \* the call or event the last step of the userscript ran

\* the MCP server: the module variables of mcp-server.mjs
VARIABLES
  wsConnection,       \* state of the socket wsConnection refers to, or "null"
  reconnectDelay,     \* reconnectDelay
  reconnectTimeout,   \* delay of the pending setTimeout of scheduleReconnect,
                      \* 0 when none is pending
  heartbeatTimer,     \* heartbeatTimer is set
  isShuttingDown,     \* isShuttingDown
  latestElement,      \* latestElement
  delays,             \* the delays scheduleReconnect has used since the last
                      \* open (or since the start)
  outbox              \* the messages given to wsConnection.send since the
                      \* last open

\* the relay process: the locals of main(), createServer() and
\* setupGracefulShutdown() of server.js, and its environment
VARIABLES
  portStatus,     \* what binding each TCP port yields: "free", "inuse"
                  \* (EADDRINUSE) or "denied" (another error code)
  requestedPort,  \* options.port
  attempt,        \* `attempt` of the loop of createServer
  browserPort,    \* `browserPort` of main(): the port createServer returned,
                  \* 0 before it returns
  subscriberPort, \* port subscriberServer listens on, 0 = not listening
  relayPhase,     \* "starting" (in createServer), "binding" (browserServer
                  \* listens, subscriberServer not created yet), "running",
                  \* "failed" (main rejected, exit code 1), "crashed"
                  \* (uncaught 'error' event), "closing" (isShuttingDown of
                  \* setupGracefulShutdown is true), "exited" (process.exit(0))
  startError,     \* code of the error that ended the start, "none" otherwise
  browserReady,   \* readyState of each producer connection's socket
  closedServers,  \* the servers whose close callback has run
  exitTimer,      \* delay of the pending timer of setTimeout(exit, 2000),
                  \* 0 when none is pending
  signals         \* SIGINT and SIGTERM signals delivered so far

processVars == <<portStatus, requestedPort, attempt, browserPort,
                 subscriberPort, relayPhase, startError, browserReady,
                 closedServers, exitTimer, signals>>

\* the producer message handler of the relay, taken statement by statement
VARIABLES
  pc,             \* where the handler stands: "idle" (not running),
                  \* "selecting" (selectTargetClient has read
                  \* subscribers.size), "probed" (detectActiveTTY returned)
  snapshot,       \* the handler's `payload`, and the registry as it was at
                  \* the handler's first read of it; <<>> when idle
  probeSeen       \* what detectActiveTTY's osascript call yielded, <<>>
                  \* when it was not called

dispatchVars == <<pc, snapshot, probeSeen>>

\* the MCP server's sockets and timers one by one; the steps of
\* SpecMcpSockets keep them, the steps of the other specifications, which
\* follow the socket wsConnection refers to only, leave them alone
VARIABLES
  mcpSockets,     \* each WebSocket object connectToBridge creates: "none"
                  \* before it exists, then "connecting", "open", "closed"
  wsRef,          \* the socket wsConnection refers to, 0 = none
  timeouts,       \* pending callbacks of the setTimeout of scheduleReconnect
  intervals       \* live timers of the setInterval of startHeartbeat

timerVars == <<mcpSockets, wsRef, timeouts, intervals>>

VARIABLES
  routed          \* what selectTargetClient returned for the events handled
                  \* so far: the [Router] line and the entry selected

scheduleVars == <<routed>>

\* what the connection handlers of the relay read and write
connVars == <<subscribers, readyState, connClientId, ticks, now,
              lastMsg, probed, activeWindow, selected, routerLog, sent,
              payloadIn, elementOut>>

relayVars == <<connVars, processVars, dispatchVars, timerVars,
               scheduleVars>>

producerVars == <<connectionState, ws, sockState, reconnectAttempts,
                  reconnectTimer, timerDelay, isManualClose, isReconnecting, op>>

listenerVars == <<wsConnection, reconnectDelay, reconnectTimeout,
                  heartbeatTimer, isShuttingDown, latestElement, delays,
                  outbox>>

vars == <<relayVars, producerVars, listenerVars>>

\* the relay's connection handlers run in a process of their own and touch
\* neither the servers nor the locals of main()
endpoints == <<producerVars, listenerVars, processVars, dispatchVars, timerVars>>

Sockets == 1..NumSockets

Browsers == 1..NumBrowsers
Servers == {"browser", "subscriber"}

\* the ports a run looks at: the default port, the subscriber port and the
\* retry range of a --port beyond the subscriber port
Ports == DEFAULT_PORT..(SUBSCRIBER_PORT + PORT_ATTEMPTS)
RequestedPorts == {DEFAULT_PORT, SUBSCRIBER_PORT + 1}

McpSockets == 1..NumMcpSockets

\* mcp-server.mjs:532-540: main() has called connectToBridge()
ScheduleInit == routed = {}

TimerInit ==
  /\ mcpSockets = [s \in McpSockets |-> IF s = 1 THEN "connecting" ELSE "none"]
  /\ wsRef = 1
  /\ timeouts = 0
  /\ intervals = 0

\* no producer message is being handled
DispatchInit ==
  /\ pc = "idle"
  /\ snapshot = <<>>
  /\ probeSeen = <<>>

\* server.js:681-717: main() has returned: both servers listen on their
\* default ports, no signal was received
ProcessInit ==
  /\ portStatus = [p \in Ports |-> "free"]
  /\ requestedPort = DEFAULT_PORT
  /\ attempt = 0
  /\ browserPort = DEFAULT_PORT
  /\ subscriberPort = SUBSCRIBER_PORT
  /\ relayPhase = "running"
  /\ startError = "none"
  /\ browserReady = [b \in Browsers |-> NotAccepted]
  /\ closedServers = {}
  /\ exitTimer = 0
  /\ signals = 0

\* part_001:76 and 857-862: the userscript before its first connect()
ProducerInit ==
  /\ connectionState = "DISCONNECTED"
  /\ ws = 0
  /\ sockState = [s \in Sockets |-> "none"]
  /\ reconnectAttempts = 0
  /\ reconnectTimer = "null"
  /\ timerDelay = 0
  /\ isManualClose = FALSE
  /\ isReconnecting = FALSE
  /\ op = "init"

\* mcp-server.mjs:49-68 and main: the MCP server after its first
\* connectToBridge()
ListenerInit ==
  /\ wsConnection = "connecting"
  /\ reconnectDelay = INITIAL_RECONNECT_DELAY
  /\ reconnectTimeout = 0
  /\ heartbeatTimer = FALSE
  /\ isShuttingDown = FALSE
  /\ latestElement = JsonNull
  /\ delays = <<>>
  /\ outbox = <<>>

registry == <<subscribers, readyState, connClientId, ticks, now>>

\* ------------------------------------------------------------ pure helpers
\* String.prototype.includes
Includes(s, p) ==
  \E i \in 0..(Len(s) - Len(p)) : SubSeq(s, i + 1, i + Len(p)) = p

\* index of the entry with key id, 0 when the Map has no such key
IndexOf(subs, id) ==
  IF \E i \in 1..Len(subs) : subs[i].clientId = id
    THEN CHOOSE i \in 1..Len(subs) : subs[i].clientId = id
    ELSE 0

\* MapSet that never looks for the key
MapSetAppend(subs, id, rec) == Append(subs, rec)

\* MapSet that moves the key it stores to the end of the iteration order
MapSetMovesLast(subs, id, rec) ==
  Append(SelectSeq(subs, LAMBDA r : r.clientId # id), rec)

\* Map.prototype.set: an existing key keeps its place, a new key goes last
MapSet(subs, id, rec) ==
  IF IndexOf(subs, id) # 0
    THEN [subs EXCEPT ![IndexOf(subs, id)] = rec]
    ELSE Append(subs, rec)

\* Map.prototype.delete
MapDelete(subs, id) ==
  LET k == IndexOf(subs, id)
  IN IF k = 0 THEN subs
     ELSE SubSeq(subs, 1, k - 1) \o SubSeq(subs, k + 1, Len(subs))

\* the truthiness test `clientId && ...` of the close handler
Truthy(id) == id \notin {NullId, Undefined, ""}

\* detectActiveTTY: `result || null`, null when execSync throws
DetectActiveTTY(outcome) ==
  IF outcome.status = "ok" /\ outcome.stdout # EmptyStr
    THEN outcome.stdout
    ELSE Null

\* body of the focus loop for one client
FocusMatch(client, window) ==
  \/ client.projectPath # EmptyStr /\ Includes(window, client.projectPath)
  \/ client.tty # EmptyStr /\ Includes(window, client.tty)

\* FocusLoop that keeps looping after a match and returns the last one
FocusLoopLast(subs, window, i) ==
  LET hits == { k \in i..Len(subs) : FocusMatch(subs[k], window) }
  IN IF hits = {} THEN 0 ELSE CHOOSE k \in hits : \A m \in hits : m <= k

\* the `for (const client of subscribers.values())` loop, from entry i on
RECURSIVE FocusLoop(_, _, _)
FocusLoop(subs, window, i) ==
  IF i > Len(subs) THEN 0
  ELSE IF FocusMatch(subs[i], window) THEN i
  ELSE FocusLoop(subs, window, i + 1)

\* IsRecent with <= for <
IsRecentInclusive(client, clock) ==
  clock - client.lastHeartbeat <= FreshWindowMs

\* the filter of strategy 2
IsRecent(client, clock) == clock - client.lastHeartbeat < FreshWindowMs

\* Array.from(subscribers.values()).filter(...), as the entries' indices
RecentClients(subs, clock) ==
  SelectSeq([i \in 1..Len(subs) |-> i], LAMBDA i : IsRecent(subs[i], clock))

\* HeartbeatFallback that takes the first recent client when several are
HeartbeatFallbackGuess(subs, clock) ==
  LET recentClients == RecentClients(subs, clock)
  IN IF Len(recentClients) >= 1 THEN
       [client |-> recentClients[1], log |-> "heartbeat"]
     ELSE
       [client |-> 0, log |-> "stale"]

\* HeartbeatFallback that writes the same line for both refusals
HeartbeatFallbackOneReason(subs, clock) ==
  LET recentClients == RecentClients(subs, clock)
  IN IF Len(recentClients) = 1 THEN
       [client |-> recentClients[1], log |-> "heartbeat"]
     ELSE
       [client |-> 0, log |-> "conflict"]

\* HeartbeatFallback that, when no heartbeat is recent, takes the client
\* whose heartbeat is the latest
HeartbeatFallbackLatest(subs, clock) ==
  LET recentClients == RecentClients(subs, clock)
  IN IF Len(recentClients) = 1 THEN
       [client |-> recentClients[1], log |-> "heartbeat"]
     ELSE IF Len(recentClients) > 1 THEN
       [client |-> 0, log |-> "conflict"]
     ELSE
       [client |-> CHOOSE i \in 1..Len(subs) :
                     \A j \in 1..Len(subs) :
                       subs[j].lastHeartbeat <= subs[i].lastHeartbeat,
        log |-> "heartbeat"]

\* strategy 2 and the refusal that follows it
HeartbeatFallback(subs, clock) ==
  LET recentClients == RecentClients(subs, clock)
  IN IF Len(recentClients) = 1 THEN
       [client |-> recentClients[1], log |-> "heartbeat"]
     ELSE IF Len(recentClients) > 1 THEN
       [client |-> 0, log |-> "conflict"]
     ELSE
       [client |-> 0, log |-> "stale"]

\* strategy 1 on the title the probe returned
FocusSelect(subs, window) ==
  IF window # Null THEN FocusLoop(subs, window, 1) ELSE 0

\* MultiClientSelect that trusts a title the probe returned: no heartbeat
\* fallback once the focus loop has run
MultiClientSelectFocusOnly(subs, outcome, clock) ==
  LET window == DetectActiveTTY(outcome)
      focus == FocusSelect(subs, window)
      fallback == HeartbeatFallback(subs, clock)
  IN IF focus # 0 THEN
       [client |-> focus, log |-> "focus", probed |-> TRUE, window |-> window]
     ELSE IF window # Null THEN
       [client |-> 0, log |-> "stale", probed |-> TRUE, window |-> window]
     ELSE
       [client |-> fallback.client, log |-> fallback.log,
        probed |-> TRUE, window |-> window]

\* MultiClientSelect that declines the event when osascript failed, and
\* falls back to the heartbeats only when it timed out or printed nothing
MultiClientSelectProbeRequired(subs, outcome, clock) ==
  LET window == DetectActiveTTY(outcome)
      focus == FocusSelect(subs, window)
      fallback == HeartbeatFallback(subs, clock)
  IN IF outcome.status = "error" THEN
       [client |-> 0, log |-> "stale", probed |-> TRUE, window |-> Null]
     ELSE IF focus # 0 THEN
       [client |-> focus, log |-> "focus", probed |-> TRUE, window |-> window]
     ELSE
       [client |-> fallback.client, log |-> fallback.log,
        probed |-> TRUE, window |-> window]

\* MultiClientSelect that asks the heartbeats first and the focus only when
\* they designate nobody
MultiClientSelectHeartbeatFirst(subs, outcome, clock) ==
  LET window == DetectActiveTTY(outcome)
      focus == FocusSelect(subs, window)
      fallback == HeartbeatFallback(subs, clock)
  IN IF fallback.client # 0 THEN
       [client |-> fallback.client, log |-> fallback.log,
        probed |-> TRUE, window |-> window]
     ELSE IF focus # 0 THEN
       [client |-> focus, log |-> "focus", probed |-> TRUE, window |-> window]
     ELSE
       [client |-> 0, log |-> fallback.log, probed |-> TRUE, window |-> window]

\* selectTargetClient with two or more clients
MultiClientSelect(subs, outcome, clock) ==
  LET window == DetectActiveTTY(outcome)
      focus == FocusSelect(subs, window)
      fallback == HeartbeatFallback(subs, clock)
  IN IF focus # 0 THEN
       [client |-> focus, log |-> "focus", probed |-> TRUE, window |-> window]
     ELSE
       [client |-> fallback.client, log |-> fallback.log,
        probed |-> TRUE, window |-> window]

\* SelectTargetClient without the single-client shortcut
SelectTargetClientNoSingle(subs, outcome, clock) ==
  IF Len(subs) = 0 THEN
    [client |-> 0, log |-> "none", probed |-> FALSE, window |-> Null]
  ELSE
    MultiClientSelect(subs, outcome, clock)

\* selectTargetClient: client is the entry returned (0 = null), log the
\* [Router] line written ("none" = nothing written)
SelectTargetClient(subs, outcome, clock) ==
  IF Len(subs) = 0 THEN
    [client |-> 0, log |-> "none", probed |-> FALSE, window |-> Null]
  ELSE IF Len(subs) = 1 THEN
    [client |-> 1, log |-> "single", probed |-> FALSE, window |-> Null]
  ELSE
    MultiClientSelect(subs, outcome, clock)

\* the record a register message stores
NewRecord(t, id, meta, clock) ==
  [clientId |-> id,
   ws |-> t,
   projectPath |-> meta.projectPath,
   tty |-> IF meta.tty # EmptyStr THEN meta.tty ELSE UnknownTty,
   lastHeartbeat |-> clock]

\* SendTargets that sends to every open subscriber once a target is found
SendTargetsBroadcast(subs, state, target) ==
  IF target # 0
    THEN { subs[i].ws : i \in { k \in 1..Len(subs) : state[subs[k].ws] = OPEN } }
    ELSE {}

\* SendTargets that falls back to the other open subscribers when the
\* selected one cannot receive
SendTargetsFallback(subs, state, target) ==
  IF target = 0 THEN {}
  ELSE IF state[subs[target].ws] = OPEN THEN {subs[target].ws}
  ELSE { subs[i].ws : i \in { k \in 1..Len(subs) : state[subs[k].ws] = OPEN } }

\* the send of handleBrowserConnection
SendTargets(subs, state, target) ==
  IF target # 0 /\ state[subs[target].ws] = OPEN
    THEN {subs[target].ws}
    ELSE {}

\* Idle that delivers to the open connections an event nobody was sent
IdleRedelivers ==
  /\ lastMsg' = "none"
  /\ probed' = FALSE
  /\ activeWindow' = Null
  /\ selected' = 0
  /\ routerLog' = "none"
  /\ sent' = IF lastMsg = "event" /\ sent = {}
               THEN { subscribers'[i].ws :
                        i \in { k \in 1..Len(subscribers') :
                                  readyState'[subscribers'[k].ws] = OPEN } }
               ELSE {}
  /\ payloadIn' = <<>>
  /\ elementOut' = <<>>
  /\ UNCHANGED <<endpoints, scheduleVars>>

\* --------------------------------------------------------------- the state
Idle ==
  /\ lastMsg' = "none"
  /\ probed' = FALSE
  /\ activeWindow' = Null
  /\ selected' = 0
  /\ routerLog' = "none"
  /\ sent' = {}
  /\ payloadIn' = <<>>
  /\ elementOut' = <<>>
  /\ UNCHANGED <<endpoints, scheduleVars>>

Init ==
  /\ subscribers = <<>>
  /\ readyState = [t \in Transports |-> NotAccepted]
  /\ connClientId = [t \in Transports |-> NullId]
  /\ ticks = 0
  /\ now = ClockAt(0)
  /\ lastMsg = "none"
  /\ probed = FALSE
  /\ activeWindow = Null
  /\ selected = 0
  /\ routerLog = "none"
  /\ sent = {}
  /\ payloadIn = <<>>
  /\ elementOut = <<>>
  /\ ProducerInit
  /\ ListenerInit
  /\ ProcessInit
  /\ DispatchInit
  /\ TimerInit
  /\ ScheduleInit

\* subscriberServer.on('connection'): handleSubscriberConnection(ws)
Accept(t) ==
  /\ readyState[t] = NotAccepted
  /\ readyState' = [readyState EXCEPT ![t] = OPEN]
  /\ connClientId' = [connClientId EXCEPT ![t] = NullId]
  /\ UNCHANGED <<subscribers, ticks, now>>
  /\ Idle

\* message handler, payload.type === 'register'
Register(t, id, meta) ==
  /\ readyState[t] = OPEN
  /\ connClientId' = [connClientId EXCEPT ![t] = id]
  /\ subscribers' = MapSet(subscribers, id, NewRecord(t, id, meta, now))
  /\ UNCHANGED <<readyState, ticks, now>>
  /\ Idle

\* Heartbeat that stores a record for a clientId the Map does not have
HeartbeatUpserts(t, id) ==
  /\ readyState[t] = OPEN
  /\ subscribers' =
       IF IndexOf(subscribers, id) # 0
         THEN [subscribers EXCEPT ![IndexOf(subscribers, id)].lastHeartbeat = now]
         ELSE Append(subscribers,
                     NewRecord(t, id, [projectPath |-> EmptyStr, tty |-> EmptyStr], now))
  /\ UNCHANGED <<readyState, connClientId, ticks, now>>
  /\ Idle

\* message handler, payload.type === 'heartbeat'
Heartbeat(t, id) ==
  /\ readyState[t] = OPEN
  /\ subscribers' =
       IF IndexOf(subscribers, id) # 0
         THEN [subscribers EXCEPT ![IndexOf(subscribers, id)].lastHeartbeat = now]
         ELSE subscribers
  /\ UNCHANGED <<readyState, connClientId, ticks, now>>
  /\ Idle

\* SubscriberOther that ends the connection that sent the message
SubscriberOtherCloses(t) ==
  /\ readyState[t] = OPEN
  /\ readyState' = [readyState EXCEPT ![t] = CLOSED]
  /\ subscribers' =
       IF Truthy(connClientId[t]) /\ IndexOf(subscribers, connClientId[t]) # 0
         THEN MapDelete(subscribers, connClientId[t])
         ELSE subscribers
  /\ UNCHANGED <<connClientId, ticks, now>>
  /\ Idle

\* message handler, JSON.parse throws or the type is neither of the two
SubscriberOther(t) ==
  /\ readyState[t] = OPEN
  /\ UNCHANGED registry
  /\ Idle

\* the socket starts its closing handshake: readyState leaves OPEN before
\* the 'close' event is emitted
BeginClose(t) ==
  /\ readyState[t] = OPEN
  /\ readyState' = [readyState EXCEPT ![t] = CLOSING]
  /\ UNCHANGED <<subscribers, connClientId, ticks, now>>
  /\ Idle

\* ws.on('close')
Close(t) ==
  /\ readyState[t] \in {OPEN, CLOSING}
  /\ readyState' = [readyState EXCEPT ![t] = CLOSED]
  /\ subscribers' =
       IF Truthy(connClientId[t]) /\ IndexOf(subscribers, connClientId[t]) # 0
         THEN MapDelete(subscribers, connClientId[t])
         ELSE subscribers
  /\ UNCHANGED <<connClientId, ticks, now>>
  /\ Idle

\* Date.now() advances
Tick ==
  /\ ticks < MaxTicks
  /\ ticks' = ticks + 1
  /\ now' = ClockAt(ticks + 1)
  /\ UNCHANGED <<subscribers, readyState, connClientId>>
  /\ Idle

\* BrowserPing that routes the ping like an element event
BrowserPingRouted ==
  LET r == SelectTargetClient(subscribers, [status |-> "error", stdout |-> EmptyStr], now)
  IN /\ lastMsg' = "ping"
     /\ probed' = r.probed
     /\ activeWindow' = r.window
     /\ selected' = r.client
     /\ routerLog' = r.log
     /\ sent' = SendTargets(subscribers, readyState, r.client)
     /\ payloadIn' = <<>>
     /\ elementOut' = <<>>
     /\ UNCHANGED registry
     /\ UNCHANGED <<endpoints, scheduleVars>>

\* browser message handler: payload.type === 'ping'
BrowserPing ==
  /\ lastMsg' = "ping"
  /\ probed' = FALSE
  /\ activeWindow' = Null
  /\ selected' = 0
  /\ routerLog' = "none"
  /\ sent' = {}
  /\ payloadIn' = <<>>
  /\ elementOut' = <<>>
  /\ UNCHANGED <<endpoints, scheduleVars>>
  /\ UNCHANGED registry

\* browser message handler: JSON.parse throws
BrowserMalformed ==
  /\ lastMsg' = "malformed"
  /\ probed' = FALSE
  /\ activeWindow' = Null
  /\ selected' = 0
  /\ routerLog' = "none"
  /\ sent' = {}
  /\ payloadIn' = <<>>
  /\ elementOut' = <<>>
  /\ UNCHANGED <<endpoints, scheduleVars>>
  /\ UNCHANGED registry

\* ForwardedData that takes the data field whenever the message has one
ForwardedDataField(payload) ==
  IF "data" \in DOMAIN payload THEN payload.data ELSE payload

\* const data = payload && payload.data ? payload.data : payload
ForwardedData(payload) ==
  IF JsTruthy(payload) /\ JsTruthy(DataOf(payload)) THEN payload.data ELSE payload

\* the object handed to JSON.stringify for target.ws.send
ElementMessage(data) == [type |-> "element", data |-> data]

\* BrowserEvent that counts a delivery as a sign of life of the listener
BrowserEventRefreshes(outcome, payload) ==
  LET r == SelectTargetClient(subscribers, outcome, now)
      data == ForwardedData(payload)
  IN /\ lastMsg' = "event"
     /\ probed' = r.probed
     /\ activeWindow' = r.window
     /\ selected' = r.client
     /\ routerLog' = r.log
     /\ sent' = SendTargets(subscribers, readyState, r.client)
     /\ payloadIn' = <<payload>>
     /\ elementOut' = IF SendTargets(subscribers, readyState, r.client) # {}
                        THEN <<ElementMessage(data)>> ELSE <<>>
     /\ subscribers' = IF r.client # 0
                         THEN [subscribers EXCEPT ![r.client].lastHeartbeat = now]
                         ELSE subscribers
     /\ UNCHANGED <<readyState, connClientId, ticks, now>>
     /\ UNCHANGED <<endpoints, scheduleVars>>

\* browser message handler: any other message is an element event
HandleEvent(outcome, payload) ==
  LET r == SelectTargetClient(subscribers, outcome, now)
      data == ForwardedData(payload)
  IN /\ lastMsg' = "event"
     /\ probed' = r.probed
     /\ activeWindow' = r.window
     /\ selected' = r.client
     /\ routerLog' = r.log
     /\ sent' = SendTargets(subscribers, readyState, r.client)
     /\ payloadIn' = <<payload>>
     /\ elementOut' = IF SendTargets(subscribers, readyState, r.client) # {}
                        THEN <<ElementMessage(data)>> ELSE <<>>
     /\ UNCHANGED registry
     /\ UNCHANGED endpoints

\* an element event of a producer
BrowserEvent(outcome, payload) ==
  /\ HandleEvent(outcome, payload)
  /\ UNCHANGED scheduleVars

Next ==
  \/ \E t \in Transports : Accept(t)
  \/ \E t \in Transports, id \in PayloadIds, meta \in RegisterMetas :
       Register(t, id, meta)
  \/ \E t \in Transports, id \in PayloadIds : Heartbeat(t, id)
  \/ \E t \in Transports : SubscriberOther(t)
  \/ \E t \in Transports : BeginClose(t)
  \/ \E t \in Transports : Close(t)
  \/ Tick
  \/ BrowserPing
  \/ BrowserMalformed
  \/ \E outcome \in ProbeOutcomes, payload \in RunMessages :
       BrowserEvent(outcome, payload)

Spec == Init /\ [][Next]_vars

\* ---------------------------------------------------------------------------
\* Arbitration over registry snapshots.  SpecArb starts from a registry that a
\* run of Spec with richer register payloads and a longer clock builds (every
\* connection accepted and open, the entries registered in Map order, each by
\* the connection it is bound to, then refreshed by heartbeats) and handles
\* browser events on it.
\* ---------------------------------------------------------------------------
\* connection of the i-th entry: the listeners register over connections of
\* their own, and over the last connection once the others are used up
SnapshotWs(i) == IF i <= NumTransports THEN i ELSE NumTransports

SnapshotRecords(k) ==
  { [NewRecord(1, id, meta, 0) EXCEPT !.lastHeartbeat = ClockAt(h)] :
      id \in PayloadIds, meta \in PayloadMetas, h \in 0..k }

UniqueClientIds(subs) ==
  \A i, j \in 1..Len(subs) : subs[i].clientId = subs[j].clientId => i = j

Snapshots(k) ==
  { [i \in 1..Len(subs) |-> [subs[i] EXCEPT !.ws = SnapshotWs(i)]] :
      subs \in { u \in UNION { [1..n -> SnapshotRecords(k)] :
                                n \in 0..Cardinality(PayloadIds) } :
                   UniqueClientIds(u) } }

\* the clientId closure of connection t after it registered its entries of subs
LastRegistered(subs, t) ==
  LET mine == { i \in 1..Len(subs) : subs[i].ws = t }
  IN IF mine = {} THEN NullId
     ELSE subs[CHOOSE i \in mine : \A j \in mine : j <= i].clientId

InitArb ==
  /\ ticks \in 0..ArbTicks
  /\ now = ClockAt(ticks)
  /\ subscribers \in Snapshots(ticks)
  /\ readyState = [t \in Transports |-> OPEN]
  /\ connClientId = [t \in Transports |-> LastRegistered(subscribers, t)]
  /\ lastMsg = "none"
  /\ probed = FALSE
  /\ activeWindow = Null
  /\ selected = 0
  /\ routerLog = "none"
  /\ sent = {}
  /\ payloadIn = <<>>
  /\ elementOut = <<>>
  /\ ProducerInit
  /\ ListenerInit
  /\ ProcessInit
  /\ DispatchInit
  /\ TimerInit
  /\ ScheduleInit

NextArb ==
  \E outcome \in ProbeOutcomes, payload \in RunMessages :
    BrowserEvent(outcome, payload)

SpecArb == InitArb /\ [][NextArb]_vars

\* ---------------------------------------------------------------------------
\* Forwarding.  SpecForward handles every kind of producer message on the
\* registries of SpecArb whose entries were all registered at time 0.
\* ---------------------------------------------------------------------------
InitForward == InitArb /\ ticks = 0

NextForward ==
  \E outcome \in ProbeOutcomes, payload \in ProducerMessages :
    BrowserEvent(outcome, payload)

SpecForward == InitForward /\ [][NextForward]_vars

\* ---------------------------------------------------------------------------
\* The userscript's connection (Transport, src/unnamed/part_001).  The
\* methods of Transport are operators on the record of its fields, so that a
\* handler that calls several of them is their composition.
\* ---------------------------------------------------------------------------
Transport ==
  [connectionState |-> connectionState,
   ws |-> ws,
   sockState |-> sockState,
   reconnectAttempts |-> reconnectAttempts,
   reconnectTimer |-> reconnectTimer,
   timerDelay |-> timerDelay,
   isManualClose |-> isManualClose,
   isReconnecting |-> isReconnecting]

\* the fields after a handler has run
Becomes(T) ==
  /\ connectionState' = T.connectionState
  /\ ws' = T.ws
  /\ sockState' = T.sockState
  /\ reconnectAttempts' = T.reconnectAttempts
  /\ reconnectTimer' = T.reconnectTimer
  /\ timerDelay' = T.timerDelay
  /\ isManualClose' = T.isManualClose
  /\ isReconnecting' = T.isReconnecting

\* Transport.setState
SetState(T, nextState) == [T EXCEPT !.connectionState = nextState]

\* WebSocket.close(): a socket that is still connecting fails (its error and
\* close events follow), an open one closes (its close event follows)
CloseSocket(ss, s) ==
  IF ss[s] = "connecting" THEN [ss EXCEPT ![s] = "failing"]
  ELSE IF ss[s] = "open" THEN [ss EXCEPT ![s] = "closing"]
  ELSE ss

\* Transport.resetReconnect
ResetReconnect(T) ==
  [T EXCEPT !.reconnectAttempts = 0,
            !.isReconnecting = FALSE,
            !.reconnectTimer = "null"]

\* ScheduleReconnect without the test of the retry budget
ScheduleReconnectUnbounded(T) ==
  [T EXCEPT !.timerDelay = RETRY_INTERVAL * 2 ^ T.reconnectAttempts,
            !.reconnectAttempts = @ + 1,
            !.reconnectTimer = "armed"]

\* Transport.scheduleReconnect
ScheduleReconnect(T) ==
  IF T.reconnectAttempts >= MAX_RETRIES THEN T
  ELSE [T EXCEPT !.timerDelay = RETRY_INTERVAL * 2 ^ T.reconnectAttempts,
                 !.reconnectAttempts = @ + 1,
                 !.reconnectTimer = "armed"]

\* sockets connect() has not created yet, and the one `new WebSocket` returns
FreeSockets(T) == { s \in Sockets : T.sockState[s] = "none" }
NewSocket(T) == CHOOSE s \in FreeSockets(T) : \A u \in FreeSockets(T) : s <= u

\* Connect without the re-entry check
ConnectUnguarded(T, throws) ==
  LET T1 == SetState([T EXCEPT !.isManualClose = FALSE], "CONNECTING")
  IN IF throws
       THEN ScheduleReconnect(SetState(T1, "DISCONNECTED"))
       ELSE [T1 EXCEPT !.ws = NewSocket(T),
                       !.sockState[NewSocket(T)] = "connecting"]

\* Transport.connect; throws: `new WebSocket(Config.WS_URL)` throws
Connect(T, throws) ==
  IF T.connectionState # "DISCONNECTED" THEN T
  ELSE
    LET T1 == SetState([T EXCEPT !.isManualClose = FALSE], "CONNECTING")
    IN IF throws
         THEN ScheduleReconnect(SetState(T1, "DISCONNECTED"))
         ELSE [T1 EXCEPT !.ws = NewSocket(T),
                         !.sockState[NewSocket(T)] = "connecting"]

\* Transport.disconnect
Disconnect(T) ==
  SetState([T EXCEPT !.isManualClose = TRUE,
                     !.reconnectTimer = "null",
                     !.sockState = IF T.ws # 0 THEN CloseSocket(@, T.ws) ELSE @,
                     !.ws = 0],
           "DISCONNECTED")

\* the 'open' listener of the socket
OnOpen(T) == ResetReconnect(SetState(T, "CONNECTED"))

\* the 'close' listener of the socket
OnClose(T) ==
  LET T1 == SetState([T EXCEPT !.ws = 0], "DISCONNECTED")
  IN IF ~T1.isManualClose /\ ~T1.isReconnecting
       THEN ScheduleReconnect([T1 EXCEPT !.isReconnecting = TRUE])
       ELSE T1

\* the 'error' listener of the socket
OnError(T) ==
  IF T.ws # 0 THEN [T EXCEPT !.sockState = CloseSocket(@, T.ws)] ELSE T

\* a call of connect() that gets as far as `new WebSocket` needs a socket of
\* the run
CanConnect(T, throws) ==
  T.connectionState # "DISCONNECTED" \/ throws \/ FreeSockets(T) # {}

\* activateInspector: Transport.connect()
UserConnect(throws) ==
  /\ CanConnect(Transport, throws)
  /\ Becomes(Connect(Transport, throws))
  /\ op' = "connect"
  /\ UNCHANGED <<relayVars, listenerVars>>

\* deactivateInspector: Transport.disconnect().  configPort calls
\* disconnect() and then connect(): this step followed by UserConnect.
UserDisconnect ==
  /\ Becomes(Disconnect(Transport))
  /\ op' = "disconnect"
  /\ UNCHANGED <<relayVars, listenerVars>>

\* the callback of the reconnect timer: this.connect()
TimerFire(throws) ==
  LET T == [Transport EXCEPT !.reconnectTimer = "spent"]
  IN /\ reconnectTimer = "armed"
     /\ CanConnect(T, throws)
     /\ Becomes(Connect(T, throws))
     /\ op' = "timer"
     /\ UNCHANGED <<relayVars, listenerVars>>

\* socket s opens
SocketOpen(s) ==
  /\ sockState[s] = "connecting"
  /\ Becomes(OnOpen([Transport EXCEPT !.sockState[s] = "open"]))
  /\ op' = "open"
  /\ UNCHANGED <<relayVars, listenerVars>>

\* socket s fails: its error event, with the close event to follow
SocketError(s) ==
  /\ sockState[s] \in {"connecting", "open", "failing"}
  /\ Becomes(OnError([Transport EXCEPT !.sockState[s] = "closing"]))
  /\ op' = "error"
  /\ UNCHANGED <<relayVars, listenerVars>>

\* the close event of socket s: after a failure, after close(), or because
\* the relay closed the connection
SocketClose(s) ==
  /\ sockState[s] \in {"open", "closing"}
  /\ Becomes(OnClose([Transport EXCEPT !.sockState[s] = "closed"]))
  /\ op' = "close"
  /\ UNCHANGED <<relayVars, listenerVars>>

InitProducer == Init

NextProducer ==
  \/ \E throws \in BOOLEAN : UserConnect(throws)
  \/ UserDisconnect
  \/ \E throws \in BOOLEAN : TimerFire(throws)
  \/ \E s \in Sockets : SocketOpen(s)
  \/ \E s \in Sockets : SocketError(s)
  \/ \E s \in Sockets : SocketClose(s)

SpecProducer == InitProducer /\ [][NextProducer]_vars

\* ---------------------------------------------------------------------------
\* The MCP server's connection to the relay (src/bridge/mcp-server.mjs)
\* ---------------------------------------------------------------------------
\* NextDelay without the maximum
NextDelayUncapped(delay) == delay * 2

\* Math.min(reconnectDelay * 2, MAX_RECONNECT_DELAY)
NextDelay(delay) ==
  IF delay * 2 < MAX_RECONNECT_DELAY THEN delay * 2 ELSE MAX_RECONNECT_DELAY

\* messages the relay sends to a subscriber
RelayMessages == { ElementMessage(ForwardedData(p)) : p \in ProducerMessages }

\* the clientId of the process, and the messages it sends
McpClientId == "mcp-pid-time"
RegisterMessage ==
  [type |-> "register", clientId |-> McpClientId, tty |-> "mcp-server"]
HeartbeatMessage == [type |-> "heartbeat", clientId |-> McpClientId]

\* SendToWs without the readyState test
SendToWsUnchecked(state, sentSoFar, message) == Append(sentSoFar, message)

\* sendToWs: the messages sent so far, after sendToWs(message)
SendToWs(state, sentSoFar, message) ==
  IF state = "open" THEN Append(sentSoFar, message) ELSE sentSoFar

\* ListenerOpen that registers on the first connection only
ListenerOpenRegistersOnce ==
  /\ ~isShuttingDown
  /\ wsConnection = "connecting"
  /\ wsConnection' = "open"
  /\ reconnectDelay' = INITIAL_RECONNECT_DELAY
  /\ outbox' = IF latestElement = JsonNull
                 THEN SendToWs("open", <<>>, RegisterMessage) ELSE <<>>
  /\ heartbeatTimer' = TRUE
  /\ delays' = <<>>
  /\ UNCHANGED <<reconnectTimeout, isShuttingDown, latestElement>>
  /\ UNCHANGED <<relayVars, producerVars>>

\* the 'open' listener: reset the delay, register(), startHeartbeat()
ListenerOpen ==
  /\ ~isShuttingDown
  /\ wsConnection = "connecting"
  /\ wsConnection' = "open"
  /\ reconnectDelay' = INITIAL_RECONNECT_DELAY
  /\ outbox' = SendToWs("open", <<>>, RegisterMessage)
  /\ heartbeatTimer' = TRUE
  /\ delays' = <<>>
  /\ UNCHANGED <<reconnectTimeout, isShuttingDown, latestElement>>
  /\ UNCHANGED <<relayVars, producerVars>>

\* ListenerClose that gives up after three reconnects in a row
ListenerCloseLimited ==
  /\ ~isShuttingDown
  /\ wsConnection \in {"connecting", "open", "closing"}
  /\ Len(delays) < MaxFailures
  /\ wsConnection' = "closed"
  /\ heartbeatTimer' = FALSE
  /\ reconnectTimeout' = IF Len(delays) < 3 THEN reconnectDelay ELSE 0
  /\ delays' = Append(delays, reconnectDelay)
  /\ UNCHANGED <<reconnectDelay, isShuttingDown, latestElement, outbox>>
  /\ UNCHANGED <<relayVars, producerVars>>

\* the 'close' listener, after a failed attempt (the 'error' listener, which
\* only writes a log line, ran before it) or after the link dropped:
\* stopHeartbeat(), scheduleReconnect()
ListenerClose ==
  /\ ~isShuttingDown
  /\ wsConnection \in {"connecting", "open", "closing"}
  /\ Len(delays) < MaxFailures
  /\ wsConnection' = "closed"
  /\ heartbeatTimer' = FALSE
  /\ reconnectTimeout' = reconnectDelay
  /\ delays' = Append(delays, reconnectDelay)
  /\ UNCHANGED <<reconnectDelay, isShuttingDown, latestElement, outbox>>
  /\ UNCHANGED <<relayVars, producerVars>>

\* the callback of the setTimeout of scheduleReconnect
ListenerTimerFire ==
  /\ ~isShuttingDown
  /\ reconnectTimeout # 0
  /\ reconnectTimeout' = 0
  /\ reconnectDelay' = NextDelay(reconnectDelay)
  /\ wsConnection' = "connecting"
  /\ UNCHANGED <<heartbeatTimer, isShuttingDown, latestElement, delays,
                 outbox>>
  /\ UNCHANGED <<relayVars, producerVars>>

\* the socket starts closing: its readyState leaves OPEN before the 'close'
\* event is emitted
ListenerBeginClose ==
  /\ ~isShuttingDown
  /\ wsConnection = "open"
  /\ wsConnection' = "closing"
  /\ UNCHANGED <<reconnectDelay, reconnectTimeout, heartbeatTimer,
                 isShuttingDown, latestElement, delays, outbox>>
  /\ UNCHANGED <<relayVars, producerVars>>

\* the callback of the setInterval of startHeartbeat
ListenerHeartbeat ==
  /\ ~isShuttingDown
  /\ heartbeatTimer
  /\ Len(outbox) <= MaxBeats
  /\ outbox' = SendToWs(wsConnection, outbox, HeartbeatMessage)
  /\ UNCHANGED <<wsConnection, reconnectDelay, reconnectTimeout,
                 heartbeatTimer, isShuttingDown, latestElement, delays>>
  /\ UNCHANGED <<relayVars, producerVars>>

\* a text JSON.parse rejects, and a message of another type than 'element'
Unparsable == [unparsable |-> TRUE]
OtherMessage == [type |-> "status", data |-> [tagName |-> "span"]]

\* what the 'message' listener of wsConnection can be given, after JSON.parse
ListenerInputs == RelayMessages \cup {OtherMessage, JsonNull, Unparsable}

\* message.type === 'element' is reached and true (JSON.parse did not throw,
\* message is not null)
IsElementMessage(raw) ==
  /\ raw \notin {Unparsable, JsonNull}
  /\ "type" \in DOMAIN raw
  /\ raw.type = "element"

\* HandleMessage that caches the data of a message of any type
HandleMessageAnyType(latest, raw) ==
  IF raw \notin {Unparsable, JsonNull} THEN DataOf(raw) ELSE latest

\* handleMessage (mcp-server.mjs:296-309): latestElement after the call.
\* The assignment comes before the log line that may throw on a null data.
HandleMessage(latest, raw) ==
  IF IsElementMessage(raw) THEN DataOf(raw) ELSE latest

\* the text of the tool's answer when latestElement is falsy
NoElementNotice == [notice |-> "no element selected"]

\* CallToolRequestSchema handler, name === 'get_selected_element'
\* (mcp-server.mjs:455-507): the content returned for args.format
GetSelectedElement(latest, format) ==
  IF ~JsTruthy(latest) THEN NoElementNotice
  ELSE IF format = "markdown" THEN [markdown |-> latest]
  ELSE [capturedAt |-> "iso", element |-> latest]

ToolFormats == {"json", "markdown"}

\* wsConnection.on('message'): handleMessage(data)
ListenerMessage(message) ==
  /\ ~isShuttingDown
  /\ wsConnection = "open"
  /\ latestElement' = HandleMessage(latestElement, message)
  /\ UNCHANGED <<wsConnection, reconnectDelay, reconnectTimeout,
                 heartbeatTimer, isShuttingDown, delays, outbox>>
  /\ UNCHANGED <<relayVars, producerVars>>

\* shutdown (SIGINT, SIGTERM): the process exits, its timers with it
ListenerShutdown ==
  /\ ~isShuttingDown
  /\ isShuttingDown' = TRUE
  /\ heartbeatTimer' = FALSE
  /\ wsConnection' = "null"
  /\ reconnectTimeout' = 0
  /\ UNCHANGED <<reconnectDelay, latestElement, delays, outbox>>
  /\ UNCHANGED <<relayVars, producerVars>>

InitListener == Init

NextListener ==
  \/ ListenerOpen
  \/ ListenerBeginClose
  \/ ListenerClose
  \/ ListenerTimerFire
  \/ ListenerHeartbeat
  \/ \E message \in ListenerInputs : ListenerMessage(message)
  \/ ListenerShutdown

SpecListener == InitListener /\ [][NextListener]_vars

\* The event loop runs the callback of a timer that is due, an attempt that
\* the relay does not fail opens, and a socket that has started closing
\* emits its 'close' event.
ListenerFairness ==
  /\ WF_vars(ListenerTimerFire)
  /\ WF_vars(ListenerOpen)
  /\ WF_vars(ListenerClose /\ wsConnection = "closing")

SpecListenerLive == InitListener /\ [][NextListener]_vars /\ ListenerFairness

\* ---------------------------------------------------------------------------
\* The start of the relay (server.js:135-190, 681-728).  The ports keep the
\* status they have when main() starts.
\* ---------------------------------------------------------------------------

\* error.code of the 'error' event of a server that cannot bind
ErrorCode(status) == IF status = "inuse" THEN "EADDRINUSE" ELSE "EACCES"

\* `const currentPort = port + attempt`
CurrentPort == requestedPort + attempt

\* one round of the loop of createServer: tryPort(currentPort) resolves with
\* the listening server, or rejects; a rejection whose status is in
\* `retried` goes on to the next round, and the loop ends after
\* PORT_ATTEMPTS rounds with the last error
TryPortRetrying(retried) ==
  /\ relayPhase = "starting"
  /\ attempt < PORT_ATTEMPTS
  /\ LET status == portStatus[CurrentPort] IN
       IF status = "free"
       THEN /\ browserPort' = CurrentPort
            /\ relayPhase' = "binding"
            /\ UNCHANGED <<attempt, startError>>
       ELSE IF status \in retried
       THEN /\ attempt' = attempt + 1
            /\ IF attempt + 1 < PORT_ATTEMPTS
               THEN UNCHANGED <<relayPhase, startError>>
               ELSE /\ relayPhase' = "failed"
                    /\ startError' = ErrorCode(status)
            /\ UNCHANGED browserPort
       ELSE /\ relayPhase' = "failed"
            /\ startError' = ErrorCode(status)
            /\ UNCHANGED <<attempt, browserPort>>
  /\ UNCHANGED <<portStatus, requestedPort, subscriberPort, browserReady,
                 closedServers, exitTimer, signals>>
  /\ UNCHANGED <<connVars, producerVars, listenerVars,
                 dispatchVars, timerVars,
                 scheduleVars>>

TryPortSkipsAnyError == TryPortRetrying({"inuse", "denied"})

\* server.js:171-190: `if (error && error.code === 'EADDRINUSE') continue`,
\* any other error is thrown at once
TryPort == TryPortRetrying({"inuse"})

\* server.js:692-716 and 723-728: new WebSocket.Server({ port: SUBSCRIBER_PORT }).
\* The constructor returns before the port is bound, so the try/catch of
\* main() sees no bind error: the server emits 'error', which has no
\* listener, and the process ends with the uncaught exception.
BindSubscriber ==
  /\ relayPhase = "binding"
  /\ IF portStatus[SUBSCRIBER_PORT] = "free" /\ browserPort # SUBSCRIBER_PORT
     THEN /\ subscriberPort' = SUBSCRIBER_PORT
          /\ relayPhase' = "running"
          /\ UNCHANGED startError
     ELSE /\ relayPhase' = "crashed"
          /\ startError' = IF browserPort = SUBSCRIBER_PORT
                           THEN ErrorCode("inuse")
                           ELSE ErrorCode(portStatus[SUBSCRIBER_PORT])
          /\ UNCHANGED subscriberPort
  /\ UNCHANGED <<portStatus, requestedPort, attempt, browserPort,
                 browserReady, closedServers, exitTimer, signals>>
  /\ UNCHANGED <<connVars, producerVars, listenerVars,
                 dispatchVars, timerVars,
                 scheduleVars>>

\* the ports main() can touch when started with --port p
PortsOfRun(p) == (p..(p + PORT_ATTEMPTS - 1)) \cup {SUBSCRIBER_PORT}

\* server.js:681-686: main() is about to call createServer(options.port)
InitStartup ==
  /\ subscribers = <<>>
  /\ readyState = [t \in Transports |-> NotAccepted]
  /\ connClientId = [t \in Transports |-> NullId]
  /\ ticks = 0
  /\ now = ClockAt(0)
  /\ lastMsg = "none"
  /\ probed = FALSE
  /\ activeWindow = Null
  /\ selected = 0
  /\ routerLog = "none"
  /\ sent = {}
  /\ payloadIn = <<>>
  /\ elementOut = <<>>
  /\ ProducerInit
  /\ ListenerInit
  /\ DispatchInit
  /\ TimerInit
  /\ ScheduleInit
  /\ requestedPort \in RequestedPorts
  /\ portStatus \in [Ports -> {"free", "inuse", "denied"}]
  /\ \A p \in Ports \ PortsOfRun(requestedPort) : portStatus[p] = "free"
  /\ attempt = 0
  /\ browserPort = 0
  /\ subscriberPort = 0
  /\ relayPhase = "starting"
  /\ startError = "none"
  /\ browserReady = [b \in Browsers |-> NotAccepted]
  /\ closedServers = {}
  /\ exitTimer = 0
  /\ signals = 0

NextStartup == TryPort \/ BindSubscriber

SpecStartup == InitStartup /\ [][NextStartup]_vars

\* ---------------------------------------------------------------------------
\* The end of the relay (server.js:596-664): connections come and go, SIGINT
\* or SIGTERM runs shutdown(), the servers report closed, the timer fires.
\* ---------------------------------------------------------------------------

\* the servers accept connections until shutdown() closes them
Listening == relayPhase = "running"

\* the process runs handlers until process.exit
Alive == relayPhase \in {"running", "closing"}

\* `closedCount` of shutdown()
closedCount == Cardinality(closedServers)

\* the step handled no producer message
NoMessage ==
  /\ lastMsg' = "none"
  /\ probed' = FALSE
  /\ activeWindow' = Null
  /\ selected' = 0
  /\ routerLog' = "none"
  /\ sent' = {}
  /\ payloadIn' = <<>>
  /\ elementOut' = <<>>

\* browserServer.on('connection'): handleBrowserConnection(ws)
BrowserAccept(b) ==
  /\ Listening
  /\ browserReady[b] = NotAccepted
  /\ browserReady' = [browserReady EXCEPT ![b] = OPEN]
  /\ NoMessage
  /\ UNCHANGED <<registry, producerVars, listenerVars,
                 dispatchVars, timerVars,
                 scheduleVars>>
  /\ UNCHANGED <<portStatus, requestedPort, attempt, browserPort,
                 subscriberPort, relayPhase, startError, closedServers,
                 exitTimer, signals>>

\* ws.on('close') of a producer connection (server.js:573-575): log only
BrowserGone(b) ==
  /\ Alive
  /\ browserReady[b] \in {OPEN, CLOSING}
  /\ browserReady' = [browserReady EXCEPT ![b] = CLOSED]
  /\ NoMessage
  /\ UNCHANGED <<registry, producerVars, listenerVars,
                 dispatchVars, timerVars,
                 scheduleVars>>
  /\ UNCHANGED <<portStatus, requestedPort, attempt, browserPort,
                 subscriberPort, relayPhase, startError, closedServers,
                 exitTimer, signals>>

\* client.close() on a socket: an OPEN socket starts its closing handshake
CloseSocketOf(state) == IF state = OPEN THEN CLOSING ELSE state

\* shutdown() without its isShuttingDown guard
SignalUnguarded ==
  /\ Alive
  /\ signals < MaxSignals
  /\ signals' = signals + 1
  /\ relayPhase' = "closing"
  /\ browserReady' = [b \in Browsers |-> CloseSocketOf(browserReady[b])]
  /\ readyState' = [t \in Transports |-> CloseSocketOf(readyState[t])]
  /\ subscribers' = <<>>
  /\ closedServers' = {}
  /\ exitTimer' = EXIT_TIMEOUT
  /\ NoMessage
  /\ UNCHANGED <<connClientId, ticks, now, producerVars, listenerVars,
                 dispatchVars, timerVars,
                 scheduleVars>>
  /\ UNCHANGED <<portStatus, requestedPort, attempt, browserPort,
                 subscriberPort, startError>>

\* process.on('SIGINT', shutdown), process.on('SIGTERM', shutdown)
\* (server.js:599-663)
Signal ==
  /\ Alive
  /\ signals < MaxSignals
  /\ signals' = signals + 1
  /\ IF relayPhase = "closing"
     THEN /\ UNCHANGED <<connVars, producerVars, listenerVars,
                         dispatchVars, timerVars,
                 scheduleVars>>
          /\ UNCHANGED <<portStatus, requestedPort, attempt, browserPort,
                         subscriberPort, relayPhase, startError, browserReady,
                         closedServers, exitTimer>>
     ELSE /\ relayPhase' = "closing"
          /\ browserReady' = [b \in Browsers |-> CloseSocketOf(browserReady[b])]
          /\ readyState' = [t \in Transports |-> CloseSocketOf(readyState[t])]
          /\ subscribers' = <<>>
          /\ closedServers' = {}
          /\ exitTimer' = EXIT_TIMEOUT
          /\ NoMessage
          /\ UNCHANGED <<connClientId, ticks, now, producerVars, listenerVars,
                         dispatchVars, timerVars,
                 scheduleVars>>
          /\ UNCHANGED <<portStatus, requestedPort, attempt, browserPort,
                         subscriberPort, startError>>

\* the sockets a server has accepted and that are not closed yet
OpenConnections(server) ==
  IF server = "browser"
  THEN { b \in Browsers : browserReady[b] \in {OPEN, CLOSING} }
  ELSE { t \in Transports : readyState[t] \in {OPEN, CLOSING} }

\* onServerClosed (server.js:639-644): the callback given to server.close()
\* runs once the server and its connections are closed
ServerClosed(server) ==
  /\ relayPhase = "closing"
  /\ server \notin closedServers
  /\ OpenConnections(server) = {}
  /\ closedServers' = closedServers \cup {server}
  /\ IF Cardinality(closedServers') = Cardinality(Servers)
     THEN /\ relayPhase' = "exited"
          /\ exitTimer' = 0
     ELSE UNCHANGED <<relayPhase, exitTimer>>
  /\ NoMessage
  /\ UNCHANGED <<registry, producerVars, listenerVars,
                 dispatchVars, timerVars,
                 scheduleVars>>
  /\ UNCHANGED <<portStatus, requestedPort, attempt, browserPort,
                 subscriberPort, startError, browserReady, signals>>

\* the callback of setTimeout(exit, 2000)
ExitTimerFire ==
  /\ relayPhase = "closing"
  /\ exitTimer # 0
  /\ relayPhase' = "exited"
  /\ exitTimer' = 0
  /\ NoMessage
  /\ UNCHANGED <<registry, producerVars, listenerVars,
                 dispatchVars, timerVars,
                 scheduleVars>>
  /\ UNCHANGED <<portStatus, requestedPort, attempt, browserPort,
                 subscriberPort, startError, browserReady, closedServers,
                 signals>>

\* a register message that was on its way when shutdown() called
\* client.close(): the socket is CLOSING, its message handler still runs
LateRegister(t, id, meta) ==
  /\ relayPhase = "closing"
  /\ readyState[t] = CLOSING
  /\ connClientId' = [connClientId EXCEPT ![t] = id]
  /\ subscribers' = MapSet(subscribers, id, NewRecord(t, id, meta, now))
  /\ UNCHANGED <<readyState, ticks, now>>
  /\ Idle

NextShutdown ==
  \/ \E t \in Transports : Listening /\ Accept(t)
  \/ \E t \in Transports, id \in ClientIds, meta \in RegisterMetas :
       Alive /\ Register(t, id, meta)
  \/ \E t \in Transports : Alive /\ Close(t)
  \/ \E t \in Transports, id \in ClientIds, meta \in RegisterMetas :
       LateRegister(t, id, meta)
  \/ \E b \in Browsers : BrowserAccept(b)
  \/ \E b \in Browsers : BrowserGone(b)
  \/ Signal
  \/ \E server \in Servers : ServerClosed(server)
  \/ ExitTimerFire

SpecShutdown == Init /\ [][NextShutdown]_vars

\* the timer of setTimeout(exit, 2000) fires
SpecShutdownLive == SpecShutdown /\ WF_vars(ExitTimerFire)

\* ---------------------------------------------------------------------------
\* The producer message handler statement by statement (server.js:538-572,
\* with selectTargetClient 413-462 and detectActiveTTY 373-400).  The handler
\* has no await and calls execSync, so it runs on the one thread of the
\* process from its first to its last statement.
\* ---------------------------------------------------------------------------

\* HandlerMayRun of a process whose handlers interleave
HandlerMayRunAnytime == TRUE

\* a handler is called from the event loop, that is when no handler runs
HandlerMayRun == pc = "idle"

\* selectTargetClient is entered for a parsed message that is not a ping and
\* reads subscribers.size (server.js:549-553, 564, 414-421)
EventBegin(payload) ==
  /\ HandlerMayRun
  /\ pc' = "selecting"
  /\ snapshot' = <<[subscribers |-> subscribers, readyState |-> readyState,
                   payload |-> payload]>>
  /\ probeSeen' = <<>>
  /\ lastMsg' = "none"
  /\ probed' = FALSE
  /\ activeWindow' = Null
  /\ selected' = 0
  /\ routerLog' = "none"
  /\ sent' = {}
  /\ payloadIn' = <<payload>>
  /\ elementOut' = <<>>
  /\ UNCHANGED <<registry, producerVars, listenerVars, processVars,
                 timerVars, scheduleVars>>

\* detectActiveTTY(): execSync returns or throws (server.js:424, 373-400);
\* it is called when the Map has more than one entry
EventProbe(outcome) ==
  /\ pc = "selecting"
  /\ Len(subscribers) > 1
  /\ pc' = "probed"
  /\ probeSeen' = <<outcome>>
  /\ UNCHANGED <<connVars, snapshot, producerVars, listenerVars, processVars,
                 timerVars, scheduleVars>>

\* the rest of selectTargetClient and target.ws.send (server.js:426-461,
\* 564-571), on the registry as it is now
EventFinish ==
  /\ \/ pc = "probed"
     \/ pc = "selecting" /\ Len(subscribers) <= 1
  /\ LET outcome == IF probeSeen = <<>>
                      THEN [status |-> "error", stdout |-> EmptyStr]
                      ELSE probeSeen[1]
         r == SelectTargetClient(subscribers, outcome, now)
         data == ForwardedData(snapshot[1].payload)
     IN /\ lastMsg' = "event"
        /\ probed' = r.probed
        /\ activeWindow' = r.window
        /\ selected' = r.client
        /\ routerLog' = r.log
        /\ sent' = SendTargets(subscribers, readyState, r.client)
        /\ payloadIn' = <<snapshot[1].payload>>
        /\ elementOut' = IF SendTargets(subscribers, readyState, r.client) # {}
                           THEN <<ElementMessage(data)>> ELSE <<>>
  /\ pc' = "idle"
  /\ snapshot' = <<>>
  /\ probeSeen' = <<>>
  /\ UNCHANGED <<registry, producerVars, listenerVars, processVars,
                 timerVars, scheduleVars>>

NextDispatch ==
  \/ \E t \in Transports : HandlerMayRun /\ Accept(t)
  \/ \E t \in Transports, id \in ClientIds, meta \in RegisterMetas :
       HandlerMayRun /\ Register(t, id, meta)
  \/ \E t \in Transports, id \in ClientIds : HandlerMayRun /\ Heartbeat(t, id)
  \/ \E t \in Transports : HandlerMayRun /\ Close(t)
  \/ Tick
  \/ \E payload \in RunMessages : EventBegin(payload)
  \/ \E outcome \in ProbeOutcomes : EventProbe(outcome)
  \/ EventFinish

SpecDispatch == Init /\ [][NextDispatch]_vars

\* ---------------------------------------------------------------------------
\* The MCP server and the relay together.  The sockets the MCP server creates
\* are, in order, the connections the relay accepts; the relay handles the
\* messages sent on a connection in the order they were sent, and may see a
\* connection close long after the MCP server did.
\* ---------------------------------------------------------------------------

\* what register() sends besides the clientId (mcp-server.mjs:223-237)
ListenerMeta == CHOOSE meta \in RegisterMetas : TRUE

Accepted == { t \in Transports : readyState[t] # NotAccepted }

\* the relay's connection for the socket wsConnection refers to, 0 while
\* that socket has not opened
CurrentLink ==
  IF wsConnection \in {"open", "closing"} /\ Accepted # {}
  THEN CHOOSE t \in Accepted : \A u \in Accepted : u <= t
  ELSE 0

\* the handshake of the MCP server's socket completes: the relay's
\* 'connection' handler (server.js:478-479, 708-711) and the MCP server's
\* 'open' listener (mcp-server.mjs:190-199) run
SessionOpen(t) ==
  /\ ~isShuttingDown
  /\ wsConnection = "connecting"
  /\ readyState[t] = NotAccepted
  /\ \A u \in Transports : u < t => readyState[u] # NotAccepted
  /\ wsConnection' = "open"
  /\ reconnectDelay' = INITIAL_RECONNECT_DELAY
  /\ outbox' = SendToWs("open", <<>>, RegisterMessage)
  /\ heartbeatTimer' = TRUE
  /\ delays' = <<>>
  /\ readyState' = [readyState EXCEPT ![t] = OPEN]
  /\ connClientId' = [connClientId EXCEPT ![t] = NullId]
  /\ NoMessage
  /\ UNCHANGED <<reconnectTimeout, isShuttingDown, latestElement>>
  /\ UNCHANGED <<subscribers, ticks, now>>
  /\ UNCHANGED <<producerVars, processVars, dispatchVars, timerVars,
                 scheduleVars>>

\* the register message sent on connection t has not been handled yet
RegisterPending(t) ==
  /\ readyState[t] = OPEN
  /\ connClientId[t] = NullId

\* a heartbeat sent on connection t can be handled: t is the connection of
\* the current socket, its register message was handled, and a heartbeat
\* was sent after it
HeartbeatPending(t) ==
  /\ t = CurrentLink
  /\ connClientId[t] = McpClientId
  /\ Len(outbox) > 1

\* the relay sees connection t close once the MCP server's socket for it is
\* no longer open
CloseVisible(t) == ~(t = CurrentLink /\ wsConnection = "open")

NextSession ==
  \/ \E t \in Transports : SessionOpen(t)
  \/ ListenerBeginClose
  \/ ListenerClose
  \/ ListenerTimerFire
  \/ ListenerHeartbeat
  \/ \E t \in Transports :
       RegisterPending(t) /\ Register(t, McpClientId, ListenerMeta)
  \/ \E t \in Transports :
       HeartbeatPending(t) /\ Heartbeat(t, McpClientId)
  \/ \E t \in Transports : CloseVisible(t) /\ Close(t)

SpecSession == Init /\ [][NextSession]_vars

\* ---------------------------------------------------------------------------
\* The MCP server's connection socket by socket (mcp-server.mjs:184-285,
\* 556-570): every socket connectToBridge created keeps its listeners and
\* fires its events whether or not wsConnection still refers to it, and
\* every setTimeout and setInterval is counted.
\* ---------------------------------------------------------------------------

\* readyState of the socket wsConnection refers to, as sendToWs reads it
WsState(sockets, ref) == IF ref = 0 THEN "null" ELSE sockets[ref]

\* stopHeartbeat: the live intervals after clearInterval(heartbeatTimer)
StopHeartbeat(live, timer) == IF timer THEN live - 1 ELSE live

\* startHeartbeat: stopHeartbeat(), then setInterval
StartHeartbeat(live, timer) == StopHeartbeat(live, timer) + 1

\* the 'open' listener of socket s
McpSocketOpen(s) ==
  /\ ~isShuttingDown
  /\ mcpSockets[s] = "connecting"
  /\ mcpSockets' = [mcpSockets EXCEPT ![s] = "open"]
  /\ reconnectDelay' = INITIAL_RECONNECT_DELAY
  /\ outbox' = SendToWs(WsState(mcpSockets', wsRef), <<>>, RegisterMessage)
  /\ intervals' = StartHeartbeat(intervals, heartbeatTimer)
  /\ heartbeatTimer' = TRUE
  /\ wsConnection' = WsState(mcpSockets', wsRef)
  /\ delays' = <<>>
  /\ UNCHANGED <<wsRef, timeouts, reconnectTimeout, isShuttingDown,
                 latestElement>>
  /\ UNCHANGED <<connVars, processVars, dispatchVars, producerVars,
                 scheduleVars>>

\* the 'close' listener of socket s: stopHeartbeat(), scheduleReconnect()
McpSocketClose(s) ==
  /\ ~isShuttingDown
  /\ mcpSockets[s] \in {"connecting", "open"}
  /\ Len(delays) < MaxFailures
  /\ mcpSockets' = [mcpSockets EXCEPT ![s] = "closed"]
  /\ intervals' = StopHeartbeat(intervals, heartbeatTimer)
  /\ heartbeatTimer' = FALSE
  /\ timeouts' = timeouts + 1
  /\ reconnectTimeout' = reconnectDelay
  /\ delays' = Append(delays, reconnectDelay)
  /\ wsConnection' = WsState(mcpSockets', wsRef)
  /\ UNCHANGED <<wsRef, reconnectDelay, isShuttingDown, latestElement, outbox>>
  /\ UNCHANGED <<connVars, processVars, dispatchVars, producerVars,
                 scheduleVars>>

\* sockets connectToBridge has not created yet
FreeMcpSockets == { s \in McpSockets : mcpSockets[s] = "none" }

\* McpTimerFire of a timer that stays pending after its callback ran
McpTimerFireRepeats ==
  /\ ~isShuttingDown
  /\ timeouts > 0
  /\ FreeMcpSockets # {}
  /\ LET s == CHOOSE u \in FreeMcpSockets : \A v \in FreeMcpSockets : u <= v
     IN /\ mcpSockets' = [mcpSockets EXCEPT ![s] = "connecting"]
        /\ wsRef' = s
  /\ reconnectTimeout' = reconnectTimeout
  /\ timeouts' = timeouts
  /\ reconnectDelay' = NextDelay(reconnectDelay)
  /\ wsConnection' = "connecting"
  /\ UNCHANGED <<intervals, heartbeatTimer, isShuttingDown, latestElement,
                 delays, outbox>>
  /\ UNCHANGED <<connVars, processVars, dispatchVars, producerVars,
                 scheduleVars>>

\* the callback of the setTimeout of scheduleReconnect: the next delay, then
\* connectToBridge()
McpTimerFire ==
  /\ ~isShuttingDown
  /\ timeouts > 0
  /\ FreeMcpSockets # {}
  /\ LET s == CHOOSE u \in FreeMcpSockets : \A v \in FreeMcpSockets : u <= v
     IN /\ mcpSockets' = [mcpSockets EXCEPT ![s] = "connecting"]
        /\ wsRef' = s
  /\ reconnectTimeout' = 0
  /\ timeouts' = timeouts - 1
  /\ reconnectDelay' = NextDelay(reconnectDelay)
  /\ wsConnection' = "connecting"
  /\ UNCHANGED <<intervals, heartbeatTimer, isShuttingDown, latestElement,
                 delays, outbox>>
  /\ UNCHANGED <<connVars, processVars, dispatchVars, producerVars,
                 scheduleVars>>

\* the callback of the setInterval of startHeartbeat, once per live timer
McpHeartbeatTick ==
  /\ ~isShuttingDown
  /\ intervals > 0
  /\ Len(outbox) <= MaxBeats
  /\ outbox' = SendToWs(WsState(mcpSockets, wsRef), outbox, HeartbeatMessage)
  /\ UNCHANGED <<wsConnection, reconnectDelay, reconnectTimeout,
                 heartbeatTimer, isShuttingDown, latestElement, delays>>
  /\ UNCHANGED <<timerVars, scheduleVars>>
  /\ UNCHANGED <<connVars, processVars, dispatchVars, producerVars,
                 scheduleVars>>

\* shutdown (mcp-server.mjs:556-570): stopHeartbeat(), wsConnection.close(),
\* process.exit(0), which ends every socket and timer of the process
McpShutdown ==
  /\ ~isShuttingDown
  /\ isShuttingDown' = TRUE
  /\ heartbeatTimer' = FALSE
  /\ intervals' = 0
  /\ timeouts' = 0
  /\ reconnectTimeout' = 0
  /\ mcpSockets' = [s \in McpSockets |->
                      IF mcpSockets[s] = "none" THEN "none" ELSE "closed"]
  /\ wsRef' = 0
  /\ wsConnection' = "null"
  /\ UNCHANGED <<reconnectDelay, latestElement, delays, outbox>>
  /\ UNCHANGED <<connVars, processVars, dispatchVars, producerVars,
                 scheduleVars>>

NextMcpSockets ==
  \/ \E s \in McpSockets : McpSocketOpen(s)
  \/ \E s \in McpSockets : McpSocketClose(s)
  \/ McpTimerFire
  \/ McpHeartbeatTick
  \/ McpShutdown

SpecMcpSockets == Init /\ [][NextMcpSockets]_vars

\* ---------------------------------------------------------------------------
\* Heartbeats on schedule.  Each MCP server registers when its connection
\* opens and its setInterval then sends a heartbeat every HEARTBEAT_INTERVAL
\* ms (mcp-server.mjs:190-199, 242-251); the relay stamps the record with
\* its own Date.now() on register and on every heartbeat (server.js:491-511).
\* The clock advances in whole seconds, no connection closes, and events of
\* a producer arrive at any moment.
\* ---------------------------------------------------------------------------

\* milliseconds of a number of seconds
Ms(seconds) == seconds * 1000

\* the clientId of the MCP server behind each listener connection
ScheduleIds == <<"c1", "c2">>

ScheduleListeners == DOMAIN ScheduleIds \cap Transports

\* the heartbeat of the record of clientId id is due: HEARTBEAT_INTERVAL ms
\* have passed since the relay stamped it
HeartbeatDue(id) ==
  /\ IndexOf(subscribers, id) # 0
  /\ now - subscribers[IndexOf(subscribers, id)].lastHeartbeat >= HEARTBEAT_INTERVAL

\* register(), sent from the 'open' listener
ScheduleRegister(t) ==
  /\ connClientId[t] = NullId
  /\ \E meta \in RegisterMetas : Register(t, ScheduleIds[t], meta)

\* the callback of setInterval(..., HEARTBEAT_INTERVAL)
ScheduleHeartbeat(t) ==
  /\ HeartbeatDue(ScheduleIds[t])
  /\ Heartbeat(t, ScheduleIds[t])

\* one second passes: no register and no heartbeat is outstanding
ScheduleTick ==
  /\ now < Ms(ScheduleEnd)
  /\ \A t \in ScheduleListeners :
       /\ readyState[t] = OPEN => connClientId[t] # NullId
       /\ ~HeartbeatDue(ScheduleIds[t])
  /\ now' = now + Ms(1)
  /\ UNCHANGED <<subscribers, readyState, connClientId, ticks>>
  /\ Idle

\* an element event of a producer, and what the arbitration answered
ScheduleEvent(outcome, payload) ==
  /\ HandleEvent(outcome, payload)
  /\ routed' = routed \cup {[log |-> routerLog', client |-> selected']}

NextSchedule ==
  \/ \E t \in ScheduleListeners : Accept(t)
  \/ \E t \in ScheduleListeners : ScheduleRegister(t)
  \/ \E t \in ScheduleListeners : ScheduleHeartbeat(t)
  \/ ScheduleTick
  \/ \E outcome \in ProbeOutcomes, payload \in RunMessages :
       ScheduleEvent(outcome, payload)

SpecSchedule == Init /\ [][NextSchedule]_vars

TypeOK ==
  /\ \A i \in 1..Len(subscribers) :
       /\ subscribers[i].clientId \in PayloadIds \cup {McpClientId}
       /\ subscribers[i].ws \in Transports
       /\ subscribers[i].lastHeartbeat \in 0..now
  /\ selected \in 0..Len(subscribers)
  /\ sent \subseteq Transports

\* ---------------------------------------------------------------------------
\* Properties.  A browser event leaves the registry and the clock as they
\* were, so right after one (lastMsg = "event") the state shows the registry
\* the decision was taken on next to the decision.
\* ---------------------------------------------------------------------------
EventHandled == lastMsg = "event"

HeartbeatAge(i) == now - subscribers[i].lastHeartbeat

\* entries whose heartbeat is less than 3 s old
FreshEntries == { i \in 1..Len(subscribers) : HeartbeatAge(i) < 3000 }

\* entry i has a non-empty project path or tty that the window title contains
LabelMatches(i) ==
  \/ /\ subscribers[i].projectPath # EmptyStr
     /\ Includes(activeWindow, subscribers[i].projectPath)
  \/ /\ subscribers[i].tty # EmptyStr
     /\ Includes(activeWindow, subscribers[i].tty)

\* entry i has a project path or tty that is a substring of the window title
SubstringMatches(i) ==
  \/ Includes(activeWindow, subscribers[i].projectPath)
  \/ Includes(activeWindow, subscribers[i].tty)

MatchingEntries == { i \in 1..Len(subscribers) : LabelMatches(i) }

NoFocusMatch == activeWindow = Null \/ MatchingEntries = {}

First(S) == CHOOSE i \in S : \A j \in S : i <= j

\* C1: handling a producer message sends the element message to at most one
\* subscriber connection, and only to the connection of the entry that
\* selectTargetClient returned for it.
C1_AtMostOneTarget ==
  /\ Cardinality(sent) <= 1
  /\ sent # {} =>
       /\ EventHandled
       /\ selected # 0
       /\ sent = {subscribers[selected].ws}

\* an event was sent to one subscriber while another registered subscriber's
\* connection was open too
C1_Witness ==
  /\ EventHandled
  /\ Cardinality(sent) = 1
  /\ \E i \in 1..Len(subscribers) :
       subscribers[i].ws \notin sent /\ readyState[subscribers[i].ws] = OPEN

\* a register of id on connection t leaves exactly one entry for id, bound to t
RegisterSupersedes ==
  \A t \in Transports, id \in PayloadIds, meta \in RegisterMetas :
    Register(t, id, meta) =>
      \E i \in 1..Len(subscribers') :
        /\ subscribers'[i].clientId = id
        /\ subscribers'[i].ws = t
        /\ \A j \in 1..Len(subscribers') :
             subscribers'[j].clientId = id => j = i

\* C2: whatever registers, heartbeats and closes happened, the registry holds
\* at most one entry per clientId, and a register leaves the one entry of its
\* clientId bound to the connection that sent it, also when another
\* connection that is still open had registered that clientId before.
C2_OneRecordPerClientId ==
  [](UniqueClientIds(subscribers)) /\ [][RegisterSupersedes]_vars

\* c1 was registered on both connections, both still open, and its one entry
\* is bound to the second
C2_Witness ==
  /\ NumTransports >= 2
  /\ readyState[1] = OPEN /\ connClientId[1] = "c1"
  /\ readyState[2] = OPEN /\ connClientId[2] = "c1"
  /\ \E i \in 1..Len(subscribers) :
       /\ subscribers[i].clientId = "c1"
       /\ subscribers[i].ws = 2
  /\ Cardinality({ i \in 1..Len(subscribers) :
                     subscribers[i].clientId = "c1" }) = 1

\* C3: once the close of a subscriber connection has been handled, no entry
\* of the registry is bound to that connection, whatever it registered.
C3_NoRecordOfClosedTransport ==
  \A t \in Transports :
    readyState[t] = CLOSED =>
      \A i \in 1..Len(subscribers) : subscribers[i].ws # t

\* C4: with exactly one entry in the registry the arbitrator returns it,
\* however old its heartbeat, and does not call the focus probe.
C4_SingleListenerSelected ==
  (EventHandled /\ Len(subscribers) = 1) =>
    /\ selected = 1
    /\ routerLog = "single"
    /\ ~probed

\* the only subscriber's heartbeat was 5 s old and it was selected
C4_Witness ==
  /\ EventHandled
  /\ Len(subscribers) = 1
  /\ HeartbeatAge(1) = 5000
  /\ selected = 1

\* C5 as stated: with two or more entries and a non-empty window title the
\* arbitrator returns the first entry whose project path or tty is a
\* substring of the title.
C5_FirstSubstringMatch ==
  (/\ EventHandled
   /\ Len(subscribers) >= 2
   /\ activeWindow # Null
   /\ \E i \in 1..Len(subscribers) : SubstringMatches(i)) =>
    selected = First({ i \in 1..Len(subscribers) : SubstringMatches(i) })

\* C5 amended: with two or more entries and a non-empty window title the
\* arbitrator returns the first entry, in the registry's iteration order,
\* whose non-empty project path or tty is a substring of the title; an entry
\* registered without a project path is not matched through its empty path.
C5_FirstLabelMatch ==
  (/\ EventHandled
   /\ Len(subscribers) >= 2
   /\ activeWindow # Null
   /\ MatchingEntries # {}) =>
    /\ selected = First(MatchingEntries)
    /\ routerLog = "focus"

\* the first entry has no project path and does not match, the two after it
\* both match the title, and the earlier of the two was selected
C5_Witness ==
  /\ EventHandled
  /\ Len(subscribers) = 3
  /\ activeWindow # Null
  /\ subscribers[1].projectPath = EmptyStr
  /\ MatchingEntries = {2, 3}
  /\ selected = 2

\* C6: with two or more entries, no focus match and exactly one entry whose
\* heartbeat is less than 3000 ms old, the arbitrator returns that entry; an
\* entry whose heartbeat is exactly 3000 ms old is not fresh.
C6_UniqueFreshSelected ==
  (/\ EventHandled
   /\ Len(subscribers) >= 2
   /\ NoFocusMatch
   /\ Cardinality(FreshEntries) = 1) =>
    /\ selected = First(FreshEntries)
    /\ routerLog = "heartbeat"

\* one entry's heartbeat was exactly 3000 ms old, another's younger, the
\* probe returned a title that matched nobody, and the younger was selected
C6_Witness ==
  /\ EventHandled
  /\ activeWindow # Null
  /\ NoFocusMatch
  /\ \E i, j \in 1..Len(subscribers) :
       /\ HeartbeatAge(i) = 3000
       /\ HeartbeatAge(j) < 3000
       /\ FreshEntries = {j}
       /\ selected = j

\* C7: with two or more entries, no focus match and two or more fresh
\* entries, the arbitrator returns nobody, writes the conflict line, and the
\* event is sent to no subscriber.
C7_ConflictDeclined ==
  (/\ EventHandled
   /\ Len(subscribers) >= 2
   /\ NoFocusMatch
   /\ Cardinality(FreshEntries) >= 2) =>
    /\ selected = 0
    /\ routerLog = "conflict"
    /\ sent = {}

\* two fresh entries next to a stale one, no focus match, event declined
C7_Witness ==
  /\ EventHandled
  /\ Len(subscribers) = 3
  /\ NoFocusMatch
  /\ Cardinality(FreshEntries) = 2
  /\ routerLog = "conflict"

\* C8: with two or more entries, no focus match and no fresh entry, the
\* arbitrator returns nobody and writes the heartbeat-timeout line, which is
\* not the conflict line; the event is sent to no subscriber.
C8_AllStaleDeclined ==
  (/\ EventHandled
   /\ Len(subscribers) >= 2
   /\ NoFocusMatch
   /\ FreshEntries = {}) =>
    /\ selected = 0
    /\ routerLog = "stale"
    /\ routerLog # "conflict"
    /\ sent = {}

\* every entry stale, one of them at exactly 3000 ms, event declined
C8_Witness ==
  /\ EventHandled
  /\ Len(subscribers) >= 2
  /\ NoFocusMatch
  /\ FreshEntries = {}
  /\ \E i \in 1..Len(subscribers) : HeartbeatAge(i) = 3000
  /\ routerLog = "stale"

\* C9: with no subscriber registered a producer event is sent to nobody and
\* the refusal is reported with the reason "no listeners".
C9_NoListenersReported ==
  (EventHandled /\ Len(subscribers) = 0) =>
    /\ sent = {}
    /\ routerLog = "no listeners"

\* the scenario of C10: two entries on open connections, a's heartbeat less
\* than 3 s old, b's 5 s old
FreshAndStale(a, b) ==
  /\ Len(subscribers) = 2
  /\ {a, b} = {1, 2}
  /\ HeartbeatAge(a) < 3000
  /\ HeartbeatAge(b) = 5000
  /\ readyState[subscribers[a].ws] = OPEN
  /\ readyState[subscribers[b].ws] = OPEN

\* C10 as stated: in that scenario the event is sent to a, whatever the
\* focus probe returns.
C10_FreshListenerGetsEvent ==
  \A a, b \in 1..Len(subscribers) :
    (EventHandled /\ FreshAndStale(a, b)) =>
      /\ selected = a
      /\ sent = {subscribers[a].ws}

\* C10 amended: in that scenario the event is sent to a, unless the focus
\* probe returns a title whose first matching entry is b, and then it is
\* sent to b; it is never declined.
FocusOn(b) ==
  activeWindow # Null /\ MatchingEntries # {} /\ First(MatchingEntries) = b

C10_FreshListenerUnlessFocusOnStale ==
  \A a, b \in 1..Len(subscribers) :
    (EventHandled /\ FreshAndStale(a, b)) =>
      /\ routerLog \in {"focus", "heartbeat"}
      /\ selected = (IF FocusOn(b) THEN b ELSE a)
      /\ sent = {subscribers[selected].ws}

\* the scenario, with a title from the probe that matched nobody: a was
\* selected by its heartbeat
C10_Witness ==
  /\ EventHandled
  /\ activeWindow # Null
  /\ \E a, b \in 1..Len(subscribers) :
       /\ FreshAndStale(a, b)
       /\ selected = a
       /\ routerLog = "heartbeat"
       /\ sent = {subscribers[a].ws}

\* probe outcomes that give no title: osascript failed, timed out, or
\* printed nothing
UnknownOutcomes ==
  { o \in ProbeOutcomes : o.status \in {"error", "timeout"} \/ o.stdout = EmptyStr }

\* C11: with two or more listeners registered, a focus probe that fails,
\* that times out and that returns an empty string are handled alike: the
\* step taken for one of them is the step taken for each of them, no title
\* is kept, and the event goes to the only listener with a fresh heartbeat
\* or, when there is none or more than one, to nobody.
C11_ProbeUnknownAlike ==
  [][ \A p \in RunMessages :
        (Len(subscribers) >= 2 /\ \E o \in UnknownOutcomes : BrowserEvent(o, p)) =>
        /\ \A o \in UnknownOutcomes : BrowserEvent(o, p)
        /\ probed'
        /\ activeWindow' = Null
        /\ routerLog' \in {"heartbeat", "conflict", "stale"}
        /\ selected' = (IF Cardinality(FreshEntries) = 1
                          THEN First(FreshEntries) ELSE 0) ]_vars

\* an event handled with two or more listeners and no title from the probe
\* was sent to the listener the heartbeats designate
C11_Witness ==
  /\ EventHandled
  /\ Len(subscribers) >= 2
  /\ probed
  /\ activeWindow = Null
  /\ routerLog = "heartbeat"
  /\ sent = {subscribers[selected].ws}

\* C12: a heartbeat that names a clientId without a record leaves the
\* registry as it was; a heartbeat that names a clientId with a record sets
\* that record's lastHeartbeat to the current time and changes nothing else:
\* no other field of it, no other record, no connection.
C12_HeartbeatTouchesOneField ==
  [][ \A t \in Transports, id \in PayloadIds :
        Heartbeat(t, id) =>
          LET k == IndexOf(subscribers, id)
          IN /\ readyState' = readyState
             /\ connClientId' = connClientId
             /\ k = 0 => subscribers' = subscribers
             /\ k # 0 =>
                  /\ Len(subscribers') = Len(subscribers)
                  /\ \A i \in 1..Len(subscribers) :
                       subscribers'[i] =
                         IF i = k
                           THEN [subscribers[i] EXCEPT !.lastHeartbeat = now]
                           ELSE subscribers[i] ]_vars

\* a record whose lastHeartbeat can only come from a heartbeat: its
\* connection registered it, then registered another clientId, both before
\* the clock advanced, and the other record still has its first timestamp
C12_Witness ==
  /\ now > 0
  /\ \E i, j \in 1..Len(subscribers) :
       /\ i # j
       /\ subscribers[i].ws = subscribers[j].ws
       /\ connClientId[subscribers[i].ws] = subscribers[j].clientId
       /\ subscribers[j].lastHeartbeat = 0
       /\ subscribers[i].lastHeartbeat = now

\* the decision selectTargetClient takes on the registry and the clock of
\* the current state, for a probe outcome
DecisionNow(outcome) == SelectTargetClient(subscribers, outcome, now)

\* C13: nothing is sent to a subscriber except while an event is handled
\* (an event that was declined, or whose target could not receive it, is not
\* delivered by any later step), and what the handling of an event selects
\* and sends is determined by the registry, the probe outcome and the clock
\* of the state it arrives in, whatever was handled before.
C13_NoDeferredDelivery ==
  [][ /\ lastMsg' # "event" => sent' = {}
      /\ lastMsg' = "event" =>
           \E o \in ProbeOutcomes :
             /\ selected' = DecisionNow(o).client
             /\ activeWindow' = DecisionNow(o).window
             /\ sent' = (IF selected' # 0 /\ readyState[subscribers[selected'].ws] = OPEN
                           THEN {subscribers[selected'].ws} ELSE {}) ]_vars

\* an event was handled whose selected target could not receive it, while
\* another registered connection was open
C13_Witness ==
  /\ EventHandled
  /\ selected # 0
  /\ sent = {}
  /\ \E i \in 1..Len(subscribers) : readyState[subscribers[i].ws] = OPEN

\* C15: a producer message of type 'ping' is ignored: selectTargetClient is
\* not called (no probe, no selection, no [Router] line), nothing is sent
\* to any subscriber and the registry is unchanged.
C15_PingIgnored ==
  [][ BrowserPing =>
        /\ ~probed'
        /\ selected' = 0
        /\ routerLog' = "none"
        /\ sent' = {}
        /\ subscribers' = subscribers
        /\ readyState' = readyState
        /\ connClientId' = connClientId ]_vars

\* a ping was handled while a registered subscriber was there to receive
C15_Witness ==
  /\ lastMsg = "ping"
  /\ sent = {}
  /\ \E i \in 1..Len(subscribers) : readyState[subscribers[i].ws] = OPEN

\* the producer message an event step handled, and the data of the element
\* message the step sent
Handled == payloadIn[1]
DeliveredData == elementOut[1].data

\* C14: when an event is delivered, the listener receives {type: 'element',
\* data} where data is the data field of the producer's message, or the whole
\* producer message when it has no data field.
C14_DataFieldForwarded ==
  (EventHandled /\ sent # {}) =>
    /\ elementOut = <<[type |-> "element", data |-> DeliveredData]>>
    /\ DeliveredData =
         (IF "data" \in DOMAIN Handled THEN Handled.data ELSE Handled)

\* C14 amended: data is the data field of the producer's message when the
\* message has one and it is truthy; it is the whole producer message when
\* the message has no data field or a falsy one (data: null, which
\* Transport.sendElement sends when the collector returned nothing).
C14_TruthyDataFieldForwarded ==
  (EventHandled /\ sent # {}) =>
    /\ elementOut = <<[type |-> "element", data |-> DeliveredData]>>
    /\ DeliveredData =
         (IF "data" \in DOMAIN Handled /\ Handled.data # JsonNull
            THEN Handled.data ELSE Handled)

\* a message of Transport.sendElement with data: null was delivered whole
C14_Witness ==
  /\ EventHandled
  /\ sent # {}
  /\ Handled = SendElementPayload(JsonNull)
  /\ DeliveredData = Handled

\* ---------------------------------------------------------------------------
\* Properties of the userscript's connection
\* ---------------------------------------------------------------------------
\* sockets that are connecting or connected
LiveSockets == { s \in Sockets : sockState[s] \in {"connecting", "open"} }

\* C16: disconnect() cancels the pending reconnect timer, closes the
\* transport (no socket is left connecting or connected) and sets the phase
\* to DISCONNECTED; and from a disconnect() to the next connect() no step,
\* the close event of the transport included, arms the reconnect timer or
\* creates a socket.
C16_DisconnectSilences ==
  [][ /\ UserDisconnect =>
           /\ reconnectTimer' # "armed"
           /\ connectionState' = "DISCONNECTED"
           /\ LiveSockets' = {}
      /\ (isManualClose /\ op' # "connect") =>
           /\ reconnectTimer' # "armed"
           /\ \A s \in Sockets : sockState[s] = "none" => sockState'[s] = "none"
    ]_vars

\* C18: as long as disconnect() is not called, every failed connection
\* attempt (the close event of the current socket) schedules a reconnect
\* after RETRY_INTERVAL * 2^reconnectAttempts ms (3000, 6000, 12000, ...) and
\* increments reconnectAttempts, until MAX_RETRIES attempts have been
\* scheduled; an open resets reconnectAttempts to zero.
C18_BackoffOnEveryFailure ==
  [][ \A s \in Sockets :
        /\ (SocketClose(s) /\ ws = s /\ ~isManualClose
              /\ reconnectAttempts < MAX_RETRIES) =>
             /\ reconnectTimer' = "armed"
             /\ timerDelay' = RETRY_INTERVAL * 2 ^ reconnectAttempts
             /\ reconnectAttempts' = reconnectAttempts + 1
        /\ SocketOpen(s) => reconnectAttempts' = 0 ]_vars

\* the phase and the fields of Transport other than the timer handle
connection == <<connectionState, ws, sockState, reconnectAttempts,
                timerDelay, isManualClose, isReconnecting>>

\* C19: connect() called while the phase is CONNECTING or CONNECTED does
\* nothing, from the menu and from the reconnect timer alike: no socket is
\* created, and the phase, Transport.ws, the retry counter, the two flags and
\* the reconnect timer are as they were (the timer whose callback made the
\* call has fired).
C19_ConnectReentryNoOp ==
  [][ (connectionState # "DISCONNECTED") =>
        /\ (\E throws \in BOOLEAN : UserConnect(throws)) =>
             /\ UNCHANGED reconnectTimer
             /\ UNCHANGED connection
        /\ (\E throws \in BOOLEAN : TimerFire(throws)) =>
             /\ UNCHANGED connection
             /\ reconnectTimer' = "spent"
    ]_vars

\* connect() was called from the menu while the socket of an earlier
\* connect() was open or still connecting, and that socket is the only one
C19_Witness ==
  /\ op = "connect"
  /\ connectionState \in {"CONNECTING", "CONNECTED"}
  /\ \E s \in Sockets :
       /\ ws = s
       /\ sockState[s] = "open"
       /\ \A u \in Sockets \ {s} : sockState[u] = "none"

\* the phase changes the lifecycle allows
PhaseChanges ==
  { <<"DISCONNECTED", "CONNECTING">>, <<"CONNECTING", "CONNECTED">>,
    <<"CONNECTED", "DISCONNECTED">>, <<"CONNECTING", "DISCONNECTED">> }

\* C20: whatever the interleaving of connect(), disconnect(), timer firings
\* and socket events, a step changes the phase only from DISCONNECTED to
\* CONNECTING, from CONNECTING to CONNECTED, and from CONNECTED or CONNECTING
\* to DISCONNECTED; never from DISCONNECTED to CONNECTED.
C20_PhaseChangesAlongCycle ==
  [][ connectionState' # connectionState =>
        <<connectionState, connectionState'>> \in PhaseChanges ]_vars

\* ---------------------------------------------------------------------------
\* Properties of the MCP server's connection
\* ---------------------------------------------------------------------------
\* the i-th delay of the backoff: 1000 ms doubled i - 1 times, at most 30000
BackoffDelay(i) ==
  IF 1000 * 2 ^ (i - 1) < 30000 THEN 1000 * 2 ^ (i - 1) ELSE 30000

\* C17: the reconnects the MCP server schedules in a row, with no open in
\* between, have the delays 1000, 2000, 4000, 8000, 16000, 30000, 30000, ...
\* ms; the row starts again at 1000 after an open.
C17_ListenerBackoff ==
  \A i \in 1..Len(delays) : delays[i] = BackoffDelay(i)

\* seven reconnects were scheduled in a row after the connection had been
\* open (an element had been received on it)
C17_Witness ==
  /\ latestElement = Element
  /\ delays = <<1000, 2000, 4000, 8000, 16000, 30000, 30000>>

\* sockets that still have an event to deliver
PendingSockets ==
  { s \in Sockets : sockState[s] \in {"connecting", "open", "failing", "closing"} }

\* C21: once connect() has been called and as long as disconnect() has not,
\* a producer that is DISCONNECTED with retries left (fewer than MAX_RETRIES
\* scheduled) has a retry under way: its reconnect timer is armed or a socket
\* of its own is still to open or to close.  It is never left with nothing
\* that would bring it back to CONNECTED without a user action.
C21_RetryUnderWay ==
  (/\ op # "init"
   /\ ~isManualClose
   /\ connectionState = "DISCONNECTED"
   /\ reconnectAttempts < MAX_RETRIES) =>
     reconnectTimer = "armed" \/ PendingSockets # {}

\* the link is open and the register message was the first message sent on it
Registered ==
  /\ wsConnection = "open"
  /\ Len(outbox) >= 1
  /\ outbox[1] = RegisterMessage

\* C22: while the MCP server is not shutting down, every close of its link
\* and every failed attempt arms the reconnect timer, however many came
\* before; and unless the link goes on failing or dropping for ever, or the
\* process shuts down, the MCP server ends up connected with its register
\* message sent on the link.
C22_ListenerReconnects ==
  /\ [][ListenerClose => reconnectTimeout' # 0]_vars
  /\ \/ []<><<ListenerClose \/ ListenerBeginClose>>_vars
     \/ <>isShuttingDown
     \/ <>[]Registered

\* a row of MaxFailures failures, and the next attempt is under way
C22_Witness ==
  /\ Len(delays) = MaxFailures
  /\ wsConnection = "connecting"
  /\ ~isShuttingDown

\* C23: every open of the MCP server's link sets the reconnect delay back to
\* 1000 ms and sends the register message with the process's clientId; on a
\* link the register message is the first message sent, it is sent once, and
\* every message after it is a heartbeat.
C23_RegisterFirstOnEveryOpen ==
  /\ [][ListenerOpen =>
          /\ reconnectDelay' = 1000
          /\ outbox' = <<RegisterMessage>>
          /\ RegisterMessage.clientId = McpClientId]_vars
  /\ [](\A i \in 1..Len(outbox) :
          IF i = 1 THEN outbox[i] = RegisterMessage
                   ELSE outbox[i].type = "heartbeat")

\* an open link on which the register message and then two heartbeats were
\* sent, of a process that has received an element
C23_Witness ==
  /\ wsConnection = "open"
  /\ latestElement # JsonNull
  /\ reconnectDelay = 1000
  /\ outbox = <<RegisterMessage, HeartbeatMessage, HeartbeatMessage>>

\* C24: a heartbeat is sent only on a link that is open, by a heartbeat timer
\* that is set; the timer is not set before the link has opened, nor once
\* its close event has been handled, nor after shutdown.
C24_HeartbeatOnlyWhileConnected ==
  /\ [][(outbox' # outbox /\ ~ListenerOpen) =>
          /\ outbox' = Append(outbox, HeartbeatMessage)
          /\ wsConnection = "open"
          /\ heartbeatTimer]_vars
  /\ [](heartbeatTimer => wsConnection \in {"open", "closing"})
  /\ [](isShuttingDown => ~heartbeatTimer)

\* the link dropped after two heartbeats and the timer is stopped
C24_Witness ==
  /\ wsConnection = "closed"
  /\ ~heartbeatTimer
  /\ outbox = <<RegisterMessage, HeartbeatMessage, HeartbeatMessage>>

\* ---- the start of the relay (SpecStartup)

Offsets == 0..(PORT_ATTEMPTS - 1)

AllBound == \A k \in Offsets : portStatus[requestedPort + k] = "inuse"

\* the first port of the range that does not answer "address in use"
FirstNotBound ==
  CHOOSE k \in Offsets :
    /\ portStatus[requestedPort + k] # "inuse"
    /\ \A j \in 0..(k - 1) : portStatus[requestedPort + j] = "inuse"

StartOver == relayPhase \in {"running", "failed", "crashed"}

\* C26: port-already-bound is fatal at startup only when every port of the
\* retry range is bound: once the start is over, and no port gave another
\* error than address-in-use, a free port in the range means that the relay
\* runs with both endpoints listening, on two different ports.
C26_StartsWhenAPortIsFree ==
  ( /\ StartOver
    /\ \A p \in PortsOfRun(requestedPort) : portStatus[p] # "denied"
    /\ ~AllBound )
  => /\ relayPhase = "running"
     /\ browserPort # 0
     /\ subscriberPort # 0
     /\ browserPort # subscriberPort

\* C27: once createServer(p) is over: it failed with EADDRINUSE exactly when
\* p, p+1 and p+2 are all bound; otherwise it went through the bound ports in
\* order up to the first port that is not bound, and returned that port if
\* it could be bound, or failed with that port's error without trying
\* a later port.
C27_CreateServerFirstFreePort ==
  relayPhase # "starting" =>
    IF AllBound
    THEN /\ relayPhase = "failed"
         /\ startError = "EADDRINUSE"
         /\ browserPort = 0
    ELSE /\ attempt = FirstNotBound
         /\ IF portStatus[requestedPort + FirstNotBound] = "free"
            THEN /\ browserPort = requestedPort + FirstNotBound
                 /\ relayPhase # "failed"
            ELSE /\ relayPhase = "failed"
                 /\ startError # "EADDRINUSE"
                 /\ browserPort = 0

\* createServer has returned the third port of the range
C27_Witness ==
  /\ relayPhase = "binding"
  /\ browserPort = requestedPort + PORT_ATTEMPTS - 1

\* ---- the end of the relay (SpecShutdown, SpecShutdownLive)

\* C28: the first SIGINT or SIGTERM closes every producer and listener
\* connection and empties the registry; a signal during the shutdown changes
\* nothing; while the shutdown lasts the 2 s timer is pending and fewer than
\* two servers have reported closed; the process exits from the shutdown
\* only, at the second server's report or when the timer fires; and a
\* shutdown always ends with the exit.
C28_ShutdownClosesAndExits ==
  /\ [][ (signals' # signals /\ relayPhase = "running") =>
           /\ relayPhase' = "closing"
           /\ subscribers' = <<>>
           /\ \A t \in Transports : readyState'[t] # OPEN
           /\ \A b \in Browsers : browserReady'[b] # OPEN ]_vars
  /\ [][ (signals' # signals /\ relayPhase = "closing") =>
           UNCHANGED <<connVars, relayPhase, browserReady, closedServers,
                       exitTimer>> ]_vars
  /\ [](relayPhase = "closing" =>
          exitTimer = EXIT_TIMEOUT /\ closedCount < Cardinality(Servers))
  /\ [][ (relayPhase' = "exited" /\ relayPhase # "exited") =>
           /\ relayPhase = "closing"
           /\ \/ closedCount' = Cardinality(Servers)
              \/ exitTimer # 0 /\ closedServers' = closedServers ]_vars
  /\ (relayPhase = "closing") ~> (relayPhase = "exited")

\* the process has exited on the timer after two signals, with a listener
\* connection that never finished closing and one server's report
C28_Witness ==
  /\ relayPhase = "exited"
  /\ signals = MaxSignals
  /\ closedCount = 1
  /\ \E t \in Transports : readyState[t] = CLOSING

\* ---- the element cache of the MCP server (SpecListener)

\* the tool's answers carry `data`, in either format
ReturnsData(data) ==
  \A format \in ToolFormats :
    LET answer == GetSelectedElement(latestElement', format)
    IN  IF format = "markdown" THEN answer = [markdown |-> data]
        ELSE "element" \in DOMAIN answer /\ answer.element = data

ReturnsNotice(latest) ==
  \A format \in ToolFormats : GetSelectedElement(latest, format) = NoElementNotice

C30_MalformedDroppedAlone ==
  /\ [][ (lastMsg' = "malformed") =>
           /\ UNCHANGED <<registry, browserReady>>
           /\ sent' = {}
           /\ elementOut' = <<>> ]_vars
  /\ [][ \A t \in Transports :
           SubscriberOther(t) =>
             /\ UNCHANGED <<subscribers, connClientId, ticks, now>>
             /\ readyState' = readyState
             /\ readyState'[t] = OPEN
             /\ sent' = {}
             /\ elementOut' = <<>> ]_vars

\* a malformed producer message was handled while two listeners were
\* registered on open connections
C30_Witness ==
  /\ lastMsg = "malformed"
  /\ Len(subscribers) = 2
  /\ \A i \in 1..Len(subscribers) : readyState[subscribers[i].ws] = OPEN

\* ---- the producer message handler as one step (SpecDispatch)

\* C25: from the first read of the registry to the send or the drop of one
\* producer event, no register, heartbeat or close handler changes the
\* registry or a connection and no other producer event is started, and the
\* event is sent, or dropped, as selectTargetClient decides on the registry
\* of the first read.
C25_DispatchIsAtomic ==
  /\ [][ (pc # "idle") =>
           UNCHANGED <<subscribers, readyState, connClientId>> ]_vars
  /\ [][ (pc # "idle" /\ pc' # "idle") => snapshot' = snapshot ]_vars
  /\ [][ (pc # "idle" /\ pc' = "idle") =>
           LET first == snapshot[1]
               outcome == IF probeSeen = <<>>
                            THEN [status |-> "error", stdout |-> EmptyStr]
                            ELSE probeSeen[1]
               r == SelectTargetClient(first.subscribers, outcome, now)
               targets == SendTargets(first.subscribers, first.readyState,
                                      r.client)
           IN /\ selected' = r.client
              /\ sent' = targets
              /\ elementOut' = IF targets # {}
                                 THEN <<ElementMessage(ForwardedData(first.payload))>>
                                 ELSE <<>>
              /\ probeSeen = <<>> <=> Len(first.subscribers) <= 1 ]_vars

\* the probe has returned for an event that found two entries registered by
\* two open connections
C25_Witness ==
  /\ pc = "probed"
  /\ Len(subscribers) = 2
  /\ \A i \in 1..Len(subscribers) : readyState[subscribers[i].ws] = OPEN
  /\ subscribers[1].ws # subscribers[2].ws

\* ---- re-registration and the close of the older transport (SpecDispatch)

\* the step is the 'close' event of connection t
ClosesTransport(t) == readyState[t] # CLOSED /\ readyState'[t] = CLOSED

\* C31: the close of a transport removes no record that is bound to another
\* transport: every record whose ws is not the closing connection is still
\* in the registry, unchanged, after the close.
C31_CloseKeepsOtherTransportsRecords ==
  [][ \A t \in Transports :
        ClosesTransport(t) =>
          \A i \in 1..Len(subscribers) :
            (subscribers[i].ws # t) =>
              \E j \in 1..Len(subscribers') : subscribers'[j] = subscribers[i]
    ]_vars

\* ---- the order of the arbitration rules (SpecArb)

\* C32: with two or more listeners the focus rule comes first: when the
\* probe's title matches a listener, the first matching listener is selected
\* by the focus rule whatever the heartbeats say; the heartbeat rule decides
\* exactly when no listener matches the title, and then by the heartbeats
\* alone.
C32_FocusBeforeHeartbeat ==
  (EventHandled /\ Len(subscribers) >= 2) =>
    /\ ~NoFocusMatch =>
         /\ routerLog = "focus"
         /\ selected = First(MatchingEntries)
    /\ NoFocusMatch =>
         /\ routerLog \in {"heartbeat", "conflict", "stale"}
         /\ selected = (IF Cardinality(FreshEntries) = 1
                          THEN First(FreshEntries) ELSE 0)
    /\ routerLog \in {"focus", "heartbeat", "conflict", "stale"}

\* the focus rule selected a listener whose heartbeat is stale while the
\* other listener is the only fresh one
C32_Witness ==
  /\ EventHandled
  /\ Len(subscribers) = 2
  /\ routerLog = "focus"
  /\ selected # 0
  /\ selected \notin FreshEntries
  /\ Cardinality(FreshEntries) = 1

\* ---- the retry budget of the userscript (SpecProducer)

\* C33: reconnectAttempts stays within 0..MAX_RETRIES; once it is
\* MAX_RETRIES no step arms a timer or counts further; and it goes down only
\* to 0, in the step of an 'open' event that makes the phase CONNECTED.
C33_RetryCounterBounded ==
  /\ [](reconnectAttempts \in 0..MAX_RETRIES)
  /\ [][ (reconnectAttempts = MAX_RETRIES) =>
           /\ reconnectAttempts' \in {MAX_RETRIES, 0}
           /\ reconnectTimer' = "armed" => reconnectTimer = "armed"
           /\ timerDelay' = timerDelay ]_vars
  /\ [][ (reconnectAttempts' < reconnectAttempts) =>
           /\ reconnectAttempts' = 0
           /\ op' = "open"
           /\ connectionState' = "CONNECTED" ]_vars

\* the budget is used up, the last timer has fired and its connect() threw:
\* nothing is scheduled any more
C33_Witness ==
  /\ reconnectAttempts = MAX_RETRIES
  /\ reconnectTimer = "spent"
  /\ connectionState = "DISCONNECTED"
  /\ ~isManualClose

\* ---- close events of a replaced transport (SpecProducer)

\* C34: the close event of a socket that Transport.ws no longer refers to,
\* while Transport.ws refers to a newer socket, changes neither the phase nor
\* Transport.ws and schedules nothing; and whenever the phase is CONNECTED,
\* Transport.ws refers to the socket that opened (open, or on its way to a
\* close event that has not been handled yet).
C34_StaleCloseIgnored ==
  /\ [][ \A s \in Sockets :
           (SocketClose(s) /\ ws # 0 /\ ws # s) =>
             /\ connectionState' = connectionState
             /\ ws' = ws
             /\ reconnectTimer' = reconnectTimer
             /\ reconnectAttempts' = reconnectAttempts ]_vars
  /\ [](connectionState = "CONNECTED" =>
          (ws # 0 /\ sockState[ws] \in {"open", "closing"}))

\* ---- the MCP server's record in the registry (SpecSession)

\* the MCP server's socket is open, the relay's connection for it is open
\* and has handled its register message
RegisteredLink ==
  /\ wsConnection = "open"
  /\ CurrentLink # 0
  /\ readyState[CurrentLink] = OPEN
  /\ connClientId[CurrentLink] = McpClientId

\* C35: while the MCP server's link is open and the relay has handled its
\* register message, the registry has a record under the MCP server's
\* clientId.
C35_RegisteredListenerHasRecord ==
  RegisteredLink => IndexOf(subscribers, McpClientId) # 0

\* ---- the MCP server's sockets and timers (SpecMcpSockets)

LiveMcpSockets == { s \in McpSockets : mcpSockets[s] \in {"connecting", "open"} }

\* C36: at most one socket of the MCP server is connecting or open, and it
\* is the one wsConnection refers to; at most one heartbeat interval is
\* live; and no reconnect timeout is pending while a socket is connecting or
\* open (nor more than one at any time).
C36_OneSocketOneTimer ==
  /\ Cardinality(LiveMcpSockets) <= 1
  /\ LiveMcpSockets \subseteq {wsRef}
  /\ intervals \in {0, 1}
  /\ intervals = 1 <=> heartbeatTimer
  /\ timeouts \in {0, 1}
  /\ LiveMcpSockets # {} => timeouts = 0

\* after two lost connections the third socket is open with its heartbeat
\* interval running and a heartbeat sent
C36_Witness ==
  /\ mcpSockets[1] = "closed"
  /\ mcpSockets[2] = "closed"
  /\ mcpSockets[3] = "open"
  /\ wsRef = 3
  /\ intervals = 1
  /\ timeouts = 0
  /\ Len(outbox) = 2

\* ---- producer messages and the registry (Spec)

\* a step in which the relay handled a message of a producer
ProducerMessageStep == lastMsg' \in {"ping", "malformed", "event"}

\* a step that is a register, a heartbeat or the close of a listener connection
RegistryWriterStep ==
  \E t \in Transports :
    \/ Close(t)
    \/ \E id \in PayloadIds : Heartbeat(t, id)
    \/ \E id \in PayloadIds, meta \in RegisterMetas : Register(t, id, meta)

\* C37: handling a producer message (a ping, a malformed message, or an
\* event, delivered or declined) leaves every registry record as it was;
\* a step that changes the registry is a register, a heartbeat or a close of
\* a listener connection (the relay's shutdown, the other writer, is the
\* Signal step of SpecShutdown).
C37_ProducerMessagesKeepRegistry ==
  [][ /\ ProducerMessageStep => subscribers' = subscribers
      /\ subscribers' # subscribers => RegistryWriterStep ]_vars

\* an event was delivered to one of two registered listeners
C37_Witness ==
  /\ lastMsg = "event"
  /\ Len(subscribers) = 2
  /\ sent # {}

\* ---- a selected listener whose connection is not OPEN (Spec)

\* the event just handled selected a record whose connection is not OPEN
SelectedNotOpen ==
  /\ lastMsg = "event"
  /\ selected # 0
  /\ readyState[subscribers[selected].ws] # OPEN

\* C38: when the record the arbitration selected has a connection that is
\* not OPEN, the event is sent to no connection at all, neither the selected
\* one nor another listener's, and the steps that follow send nothing unless
\* they handle an event of their own.
C38_SelectedNotOpenDrops ==
  [][ /\ SelectedNotOpen' => sent' = {} /\ elementOut' = <<>>
      /\ SelectedNotOpen /\ lastMsg' # "event" => sent' = {} /\ elementOut' = <<>>
    ]_vars

\* the selected listener's connection is closing while another listener's
\* connection is open, and nothing was sent
C38_Witness ==
  /\ SelectedNotOpen
  /\ readyState[subscribers[selected].ws] = CLOSING
  /\ \E i \in 1..Len(subscribers) : readyState[subscribers[i].ws] = OPEN
  /\ sent = {}

\* ---- two listeners whose heartbeats are on schedule (SpecSchedule)

\* an event was handled with both listeners registered and no focus match
ScheduledEvent ==
  /\ lastMsg = "event"
  /\ Len(subscribers) = 2
  /\ NoFocusMatch

\* every record is stale although no heartbeat is overdue
AllStaleOnSchedule ==
  \A i \in 1..Len(subscribers) :
    /\ HeartbeatAge(i) >= FreshWindowMs
    /\ HeartbeatAge(i) <= HEARTBEAT_INTERVAL

\* C39: the heartbeat period is longer than the freshness window, so with
\* two listeners that stay connected and send every heartbeat on schedule
\* (no record is ever older than one period) and no focus match, an event
\* that arrives while both records are between 3 s and 5 s old is declined
\* as 'all stale' and sent to nobody, and an event that arrives while one
\* record only is less than 3 s old is delivered to that listener.
C39_OnScheduleStaleOrLucky ==
  /\ HEARTBEAT_INTERVAL > FreshWindowMs
  /\ \A i \in 1..Len(subscribers) : HeartbeatAge(i) <= HEARTBEAT_INTERVAL
  /\ ScheduledEvent =>
       /\ FreshEntries = {} =>
            AllStaleOnSchedule /\ routerLog = "stale" /\ selected = 0 /\ sent = {}
       /\ \A i \in 1..Len(subscribers) :
            FreshEntries = {i} =>
              /\ routerLog = "heartbeat"
              /\ selected = i
              /\ sent = {subscribers[i].ws}

\* an event is declined as 'all stale' with both heartbeats on schedule, in
\* a run in which events were also delivered to the first and to the second
\* listener on their heartbeats
C39_Witness ==
  /\ ScheduledEvent
  /\ AllStaleOnSchedule
  /\ routerLog = "stale"
  /\ sent = {}
  /\ \A i \in 1..Len(subscribers) : [log |-> "heartbeat", client |-> i] \in routed

\* ---- the iteration order of the registry (Spec)

\* the clientIds of the records in the order subscribers.values() yields them
KeyOrder(subs) == [i \in 1..Len(subs) |-> subs[i].clientId]

\* C40: a register for a clientId that has a record leaves the iteration
\* order of the registry as it was (the record keeps the place of its first
\* registration); a register for a clientId that has no record, never
\* registered or removed since, puts it last; and the listener a focus
\* match selects is the first matching record in that order.
C40_RegisterKeepsPlace ==
  [][ /\ \A t \in Transports, id \in PayloadIds, meta \in RegisterMetas :
           Register(t, id, meta) =>
             IF IndexOf(subscribers, id) # 0
               THEN KeyOrder(subscribers') = KeyOrder(subscribers)
               ELSE KeyOrder(subscribers') = Append(KeyOrder(subscribers), id)
      /\ lastMsg' = "event" /\ routerLog' = "focus" =>
           /\ MatchingEntries' # {}
           /\ selected' = First(MatchingEntries')
    ]_vars

\* c1 registered before c2 and again after it, over the connection c2
\* registered on: the focus match selects c1's record, the first in order
C40_Witness ==
  /\ Len(subscribers) = 2
  /\ KeyOrder(subscribers) = <<"c1", "c2">>
  /\ subscribers[1].ws = 2
  /\ subscribers[2].ws = 2
  /\ connClientId[2] = "c1"
  /\ lastMsg = "event"
  /\ routerLog = "focus"
  /\ selected = 1
====
